---- MODULE Spec2Model ----
(***************************************************************************)
(* Model of the cascading autocomplete subsystem of stockflow:             *)
(*   lib/utils/cache.ts                 session-storage cache layer        *)
(*   lib/hooks/use-debounced-search.ts  useDebouncedSearch / usePrefetch   *)
(*   components/ui/cascading-combobox.tsx  field controller                *)
(*   app/demo/combobox/page.tsx         Brand -> Model -> ModelNumber page *)
(***************************************************************************)
EXTENDS Integers, Sequences, FiniteSets, TLC

(***************************************************************************)
(* Bounds of the model.  MaxEntries and Ttl scale DEFAULT_CONFIG           *)
(* (50 entries, 24 hours) down to sizes that can be enumerated.            *)
(***************************************************************************)
MaxEntries == 2
Ttl == 1

\* the clock runs until an entry written at time 0 has expired
MaxTime == Ttl + 1

(***************************************************************************)
(* cache.ts: configuration and storage keys                                *)
(***************************************************************************)
KeyPrefix == "combobox_cache_"

\* cache keys used by the callers of the cache-only specification
NumKeys == MaxEntries + 1
CacheKeys == { "/api/e" \o ToString(i) \o ":" : i \in 1..NumKeys }

\* a key of the hosting application that shares sessionStorage
OtherKey == "other_key"

StorageKeyOf(key) == KeyPrefix \o key

\* String.prototype.startsWith
StartsWith(s, p) == Len(s) >= Len(p) /\ SubSeq(s, 1, Len(p)) = p

\* sessionStorage.getItem(sk): null for a key that is not stored
NoItem == [kind |-> "none"]
GetItem(s, sk) == IF sk \in DOMAIN s THEN s[sk] ELSE NoItem

\* sessionStorage.setItem(sk, item) and sessionStorage.removeItem(sk)
SetItem(s, sk, item) ==
    [x \in DOMAIN s \cup {sk} |-> IF x = sk THEN item ELSE s[x]]
RemoveItem(s, sk) == [x \in DOMAIN s \ {sk} |-> s[x]]

Null == [kind |-> "null"]

\* a serializer that loses the validator
SerializeNoEtag(entry) ==
    [kind |-> "json", data |-> entry.data, etag |-> "",
     timestamp |-> entry.timestamp, key |-> entry.key]

\* JSON.stringify(entry): the stored text, kept as its parsed structure
Serialize(entry) ==
    [kind |-> "json", data |-> entry.data, etag |-> entry.etag,
     timestamp |-> entry.timestamp, key |-> entry.key]

\* JSON.parse(item) succeeds only on text written by JSON.stringify
Parses(item) == item.kind = "json"

ParseEntry(item) ==
    [kind |-> "entry", data |-> item.data, etag |-> item.etag,
     timestamp |-> item.timestamp, key |-> item.key]

\* option lists and validators handed to setCacheEntry
Opt(v, l) == [value |-> v, label |-> l]
Payloads ==
    { [data |-> <<Opt("1", "Nike")>>, etag |-> "abc123"],
      [data |-> <<Opt("1", "Nike"), Opt("2", "Adidas")>>, etag |-> ""] }

\* ttl values passed in the config argument of getCacheEntry and setCacheEntry
TtlChoices == {-1, Ttl}

\* outcomes of sessionStorage.setItem inside setCacheEntry
WriteOutcomes == {"ok", "retryOk", "retryFail"}

VARIABLES
    store,      \* sessionStorage: storage key -> item
    now,        \* Date.now()
    lastOp,     \* the last call or handler that ran: arguments, locals, result
    value,      \* page state: brand, model, modelNumber (useState(''))
    field,      \* per field: reducer state, hook state, refs, effect deps
    net,        \* fetch() calls whose promise has not settled yet
    obs,        \* per field: attempts since the last user event, pending clear
    budget      \* user events and request failures still allowed

cacheVars == <<store, now, lastOp>>
pageVars == <<value, field, net, obs, budget>>
vars == <<store, now, lastOp, value, field, net, obs, budget>>

(***************************************************************************)
(* cache.ts: evictOldEntries                                               *)
(***************************************************************************)
\* the {key, timestamp} records collected by the loop over sessionStorage
CollectEntries(s) ==
    { [key |-> sk, timestamp |-> s[sk].timestamp] :
        sk \in { x \in DOMAIN s : StartsWith(x, KeyPrefix) } }

\* JSON.parse inside the loop throws on an unparsable item
CollectThrows(s) ==
    \E sk \in DOMAIN s : StartsWith(sk, KeyPrefix) /\ ~Parses(s[sk])

\* a sort with the comparison reversed
NewestFirst(entries, n) ==
    { R \in SUBSET entries :
        /\ Cardinality(R) = n
        /\ \A a \in R, b \in entries \ R : a.timestamp >= b.timestamp }

\* entries.sort((a, b) => a.timestamp - b.timestamp).slice(0, n):
\* every set of n entries that some enumeration order of sessionStorage
\* puts first after the stable sort
OldestFirst(entries, n) ==
    { R \in SUBSET entries :
        /\ Cardinality(R) = n
        /\ \A a \in R, b \in entries \ R : a.timestamp <= b.timestamp }

\* eviction that starts only above the limit
ToRemoveChoicesLate(s, maxEntries) ==
    IF CollectThrows(s) THEN { {} }
    ELSE LET entries == CollectEntries(s)
             n == Cardinality(entries)
         IN  IF n > maxEntries
             THEN OldestFirst(entries, n - maxEntries + 1)
             ELSE { {} }

\* the toRemove slices evictOldEntries may compute
ToRemoveChoices(s, maxEntries) ==
    IF CollectThrows(s) THEN { {} }
    ELSE LET entries == CollectEntries(s)
             n == Cardinality(entries)
         IN  IF n >= maxEntries
             THEN LET m == IF n - maxEntries + 1 > n THEN n ELSE n - maxEntries + 1
                  IN  OldestFirst(entries, m)
             ELSE { {} }

RemoveItems(s, toRemove) ==
    [sk \in DOMAIN s \ { e.key : e \in toRemove } |-> s[sk]]

(***************************************************************************)
(* cache.ts: getCacheEntry, setCacheEntry, clearCache                      *)
(***************************************************************************)
\* an expiry test that already expires at age = ttl
ExpiredEarly(item, t, ttl) == t - item.timestamp >= ttl

\* the expiry test of getCacheEntry: now - entry.timestamp > ttl
Expired(item, t, ttl) == t - item.timestamp > ttl

\* value returned by getCacheEntry(key, {ttl}) on store s at time t
GetValue(s, key, t, ttl) ==
    LET item == GetItem(s, StorageKeyOf(key))
    IN  IF item.kind = "none" THEN Null
        ELSE IF ~Parses(item) THEN Null
        ELSE IF Expired(ParseEntry(item), t, ttl) THEN Null
        ELSE ParseEntry(item)

\* store left by getCacheEntry(key, {ttl})
GetStore(s, key, t, ttl) ==
    LET sk == StorageKeyOf(key)
        item == GetItem(s, sk)
    IN  IF item.kind # "none" /\ Parses(item) /\ Expired(ParseEntry(item), t, ttl)
        THEN RemoveItem(s, sk)
        ELSE s

\* a retry that is not preceded by the second eviction
PutStoreNoEviction(s, key, data, etag, t, outcome, rm1, rm2) ==
    LET sk == StorageKeyOf(key)
        item == Serialize([data |-> data, etag |-> etag, timestamp |-> t, key |-> key])
        s1 == RemoveItems(s, rm1)
    IN  IF outcome = "retryFail" THEN s1 ELSE SetItem(s1, sk, item)

\* store left by setCacheEntry: eviction, write, and on a quota error the
\* second eviction with floor(maxEntries / 2) and one retry
PutStore(s, key, data, etag, t, outcome, rm1, rm2) ==
    LET sk == StorageKeyOf(key)
        item == Serialize([data |-> data, etag |-> etag, timestamp |-> t, key |-> key])
        s1 == RemoveItems(s, rm1)
        s2 == RemoveItems(s1, rm2)
    IN  IF outcome = "ok" THEN SetItem(s1, sk, item)
        ELSE IF outcome = "retryOk" THEN SetItem(s2, sk, item)
        ELSE s2

\* a clear that empties the whole storage
ClearStoreAll(s) == [sk \in {} |-> NoItem]

\* clearCache: removes the keys collected under the prefix
ClearStore(s) ==
    [sk \in { x \in DOMAIN s : ~StartsWith(x, KeyPrefix) } |-> s[sk]]

\* number of entries under the cache prefix
EntryCount(s) ==
    Cardinality({ sk \in DOMAIN s : StartsWith(sk, KeyPrefix) })

(***************************************************************************)
(* Strings                                                                 *)
(***************************************************************************)
UpperCase == "ABCDEFGHIJKLMNOPQRSTUVWXYZ"
LowerCase == "abcdefghijklmnopqrstuvwxyz"

\* the lower-case letter of each upper-case letter
LowerOf ==
    [c \in { SubSeq(UpperCase, i, i) : i \in 1..26 } |->
        LET i == CHOOSE j \in 1..26 : SubSeq(UpperCase, j, j) = c
        IN  SubSeq(LowerCase, i, i)]

LowerChar(c) == IF c \in DOMAIN LowerOf THEN LowerOf[c] ELSE c

\* String.prototype.toLowerCase
RECURSIVE ToLowerCase(_)
ToLowerCase(s) ==
    IF s = "" THEN ""
    ELSE LowerChar(SubSeq(s, 1, 1)) \o ToLowerCase(SubSeq(s, 2, Len(s)))

\* String.prototype.includes
Includes(s, q) ==
    \E i \in 0..(Len(s) - Len(q)) : SubSeq(s, i + 1, i + Len(q)) = q

\* !query || query.trim().length === 0
Blank(q) == \A i \in 1..Len(q) : SubSeq(q, i, i) = " "

\* query.split(/\s+/).filter(t => t.length > 0)
RECURSIVE SplitTokens(_, _)
SplitTokens(s, cur) ==
    IF s = "" THEN (IF cur = "" THEN <<>> ELSE <<cur>>)
    ELSE LET c == SubSeq(s, 1, 1)
             rest == SubSeq(s, 2, Len(s))
         IN  IF c = " "
             THEN (IF cur = "" THEN <<>> ELSE <<cur>>) \o SplitTokens(rest, "")
             ELSE SplitTokens(rest, cur \o c)

(***************************************************************************)
(* fuzzy-search.ts: the strategy used for local filtering                  *)
(***************************************************************************)
\* a filter that keeps an option as soon as one token occurs in it
MultiTokenSearchAny(query, options) ==
    IF Blank(query) THEN options
    ELSE LET tokens == SplitTokens(ToLowerCase(query), "")
             Keep(o) == \E i \in 1..Len(tokens) :
                          Includes(ToLowerCase(o.label \o " " \o o.value), tokens[i])
         IN  IF Len(tokens) = 0 THEN options ELSE SelectSeq(options, Keep)

\* multiTokenSearch: options whose "label value" text contains every token
MultiTokenSearch(query, options) ==
    IF Blank(query) THEN options
    ELSE LET tokens == SplitTokens(ToLowerCase(query), "")
             Keep(o) == \A i \in 1..Len(tokens) :
                          Includes(ToLowerCase(o.label \o " " \o o.value), tokens[i])
         IN  IF Len(tokens) = 0 THEN options ELSE SelectSeq(options, Keep)

\* fuzzySearch: Fuse.js (keys label and value, threshold 0.3) keeps the
\* options in which the pattern occurs; equal scores keep their order
FuzzySearch(query, options) ==
    IF Blank(query) THEN options
    ELSE LET q == ToLowerCase(query)
             Hit(o) == Includes(ToLowerCase(o.label), q) \/ Includes(ToLowerCase(o.value), q)
         IN  SelectSeq(options, Hit)

\* rankSearchResults: exact matches, then prefix matches, then fuzzy matches
RankSearchResults(query, options) ==
    IF Blank(query) THEN options
    ELSE LET q == ToLowerCase(query)
             Exact(o) == ToLowerCase(o.label) = q \/ ToLowerCase(o.value) = q
             Prefix(o) == /\ ~Exact(o)
                          /\ \/ StartsWith(ToLowerCase(o.label), q)
                             \/ StartsWith(ToLowerCase(o.value), q)
             Other(o) == ~Exact(o) /\ ~Prefix(o)
         IN  SelectSeq(options, Exact) \o SelectSeq(options, Prefix)
                \o FuzzySearch(query, SelectSeq(options, Other))

\* a combined search that filters without ranking
SmartSearchUnranked(query, options) ==
    IF Blank(query) THEN options
    ELSE MultiTokenSearch(query, options)

\* smartSearch: multi-token filter, then ranking
SmartSearch(query, options) ==
    IF Blank(query) THEN options
    ELSE RankSearchResults(query, MultiTokenSearch(query, options))

(***************************************************************************)
(* page.tsx: the Brand -> Model -> ModelNumber form                        *)
(***************************************************************************)
Fields == {"brand", "model", "modelNumber"}

Endpoint ==
    [brand |-> "/api/brands", model |-> "/api/models",
     modelNumber |-> "/api/model-numbers"]

\* the prefetch prop of each field
Prefetch == [brand |-> TRUE, model |-> FALSE, modelNumber |-> FALSE]

\* the parentFilters prop, as the list of its name/value pairs
ParentFilters(f, v) ==
    CASE f = "brand" -> <<>>
      [] f = "model" -> << <<"brandId", v.brand>> >>
      [] f = "modelNumber" -> << <<"brandId", v.brand>>, <<"modelId", v.model>> >>

\* a field without the prop gets the default `parentFilters = {}`, a new
\* object in every render
DefaultFilters(f) == f = "brand"

\* defaults of the component props
MinChars == 2

(***************************************************************************)
(* cache.ts: generateCacheKey                                              *)
(***************************************************************************)
RECURSIVE JsonPairs(_)
JsonPairs(pairs) ==
    IF pairs = <<>> THEN ""
    ELSE "\"" \o pairs[1][1] \o "\":\"" \o pairs[1][2] \o "\""
            \o (IF Len(pairs) > 1 THEN "," ELSE "") \o JsonPairs(Tail(pairs))

\* JSON.stringify of an object with string values, in insertion order
JsonObject(pairs) == "{" \o JsonPairs(pairs) \o "}"

GenerateCacheKey(endpoint, filters) == endpoint \o ":" \o JsonObject(filters)

\* a search key that leaves the query out
SearchKeyNoQuery(f, pf, q) == GenerateCacheKey(Endpoint[f], pf)

\* key of useDebouncedSearch.fetchData: { ...parentFilters, q: searchQuery }
SearchKey(f, pf, q) == GenerateCacheKey(Endpoint[f], pf \o << <<"q", q>> >>)

\* key of usePrefetch.fetchData
PrefetchKey(f, pf) == GenerateCacheKey(Endpoint[f], pf)

(***************************************************************************)
(* The backend behind the endpoints (mock data and API routes)             *)
(***************************************************************************)
\* the first rows of the brand table, and the rows of the other tables that
\* the typed texts can match
MockBrands == << [id |-> "1", name |-> "Nike"], [id |-> "2", name |-> "Adidas"] >>

MockModels ==
    << [id |-> "4", brandId |-> "1", name |-> "Zoom"],
       [id |-> "9", brandId |-> "2", name |-> "NMD"] >>

MockModelNumbers ==
    << [id |-> "1", brandId |-> "1", modelId |-> "1", number |-> "90"] >>

FilterValue(pf, name) ==
    IF \E i \in 1..Len(pf) : pf[i][1] = name
    THEN pf[CHOOSE i \in 1..Len(pf) : pf[i][1] = name][2]
    ELSE ""

\* GET /api/brands?q=..
GetBrands(q) ==
    LET lq == ToLowerCase(q)
        Keep(b) == lq = "" \/ Includes(ToLowerCase(b.name), lq)
        rows == SelectSeq(MockBrands, Keep)
    IN  [i \in 1..Len(rows) |-> [value |-> rows[i].id, label |-> rows[i].name]]

\* GET /api/models?q=..&brandId=..
GetModels(pf, q) ==
    LET lq == ToLowerCase(q)
        brandId == FilterValue(pf, "brandId")
        Keep(m) == /\ brandId = "" \/ m.brandId = brandId
                   /\ lq = "" \/ Includes(ToLowerCase(m.name), lq)
        rows == SelectSeq(MockModels, Keep)
    IN  [i \in 1..Len(rows) |-> [value |-> rows[i].id, label |-> rows[i].name]]

\* GET /api/model-numbers?q=..&brandId=..&modelId=..
GetModelNumbers(pf, q) ==
    LET lq == ToLowerCase(q)
        brandId == FilterValue(pf, "brandId")
        modelId == FilterValue(pf, "modelId")
        Keep(m) == /\ brandId = "" \/ m.brandId = brandId
                   /\ modelId = "" \/ m.modelId = modelId
                   /\ lq = "" \/ Includes(ToLowerCase(m.number), lq)
        rows == SelectSeq(MockModelNumbers, Keep)
    IN  [i \in 1..Len(rows) |-> [value |-> rows[i].id, label |-> rows[i].number]]

\* body of a 200 response of GET <endpoint>?q=..&<filters>
ServerData(f, pf, q) ==
    CASE f = "brand" -> GetBrands(q)
      [] f = "model" -> GetModels(pf, q)
      [] f = "modelNumber" -> GetModelNumbers(pf, q)

\* the texts a user types into a field
InputTexts(f) ==
    CASE f = "brand" -> {"Ni"}
      [] f = "model" -> {"Z", "Zo", "Zoo"}
      [] f = "modelNumber" -> {"90"}

\* the option list of the brand endpoint and the texts its field can hold
BrandOptions == GetBrands("")
BrandTexts == InputTexts("brand") \cup { MockBrands[i].name : i \in 1..Len(MockBrands) }

\* smartSearch over the brand list, evaluated once for each text
BrandSearch == [q \in BrandTexts |-> SmartSearch(q, BrandOptions)]

\* smartSearch(state.inputValue, state.options)
LocalFilter(q, options) ==
    IF q \in BrandTexts /\ options = BrandOptions
    THEN BrandSearch[q]
    ELSE SmartSearch(q, options)

\* the validator of a response body
RECURSIVE JoinValues(_)
JoinValues(data) ==
    IF data = <<>> THEN "" ELSE Head(data).value \o "," \o JoinValues(Tail(data))

GenerateETag(data) == "\"" \o JoinValues(data) \o "\""

(***************************************************************************)
(* cascading-combobox.tsx: reducer and initial state                       *)
(***************************************************************************)
\* null of a `string | null` or `Error | null` state
NoMsg == "null"

InitialState ==
    [inputValue |-> "", selectedValue |-> "", options |-> <<>>,
     filteredOptions |-> <<>>, isLoading |-> FALSE, error |-> NoMsg,
     isOpen |-> FALSE, validationError |-> NoMsg, isTouched |-> FALSE]

Act(t, p) == [type |-> t, payload |-> p]

ComboboxReducer(state, a) ==
    CASE a.type = "SET_INPUT_VALUE" -> [state EXCEPT !.inputValue = a.payload]
      [] a.type = "SET_SELECTED_VALUE" ->
            [state EXCEPT !.selectedValue = a.payload, !.inputValue = a.payload]
      [] a.type = "SET_OPTIONS" -> [state EXCEPT !.options = a.payload]
      [] a.type = "SET_FILTERED_OPTIONS" -> [state EXCEPT !.filteredOptions = a.payload]
      [] a.type = "SET_LOADING" -> [state EXCEPT !.isLoading = a.payload]
      [] a.type = "SET_ERROR" -> [state EXCEPT !.error = a.payload]
      [] a.type = "SET_OPEN" -> [state EXCEPT !.isOpen = a.payload]
      [] a.type = "SET_VALIDATION_ERROR" -> [state EXCEPT !.validationError = a.payload]
      [] a.type = "SET_TOUCHED" -> [state EXCEPT !.isTouched = a.payload]
      [] a.type = "RESET" -> InitialState
      [] OTHER -> state

\* the dispatches of one handler or effect pass, applied in order
RECURSIVE Dispatch(_, _)
Dispatch(state, actions) ==
    IF actions = <<>> THEN state
    ELSE Dispatch(ComboboxReducer(state, Head(actions)), Tail(actions))

(***************************************************************************)
(* use-debounced-search.ts: hook state and refs                            *)
(***************************************************************************)
\* useState of data, isLoading, error of the hook the field reads from
InitialHook == [data |-> <<>>, isLoading |-> FALSE, error |-> NoMsg]

\* message of the Error thrown for a failed request
HttpError == "HTTP error! status: 500"

ClearTimeoutNone(timers) == timers

\* clearTimeout(timeoutRef.current): disarms the timer the ref points to
ClearTimeout(timers) == { t \in timers : ~t.ref }

\* timeoutRef.current = setTimeout(...): the ref now points to the new timer
SetTimeout(timers, q, pf) ==
    { [t EXCEPT !.ref = FALSE] : t \in timers }
        \cup { [query |-> q, pf |-> pf, ref |-> TRUE] }

\* what a field instance holds between renders
InitialField ==
    [st |-> InitialState,
     highlightedIndex |-> 0,
     hook |-> InitialHook,
     ctl |-> "null",            \* abortControllerRef.current: null, live, aborted
     timers |-> {},             \* armed debounce timers with their closures
     seen |-> [mounted |-> FALSE, query |-> "", preEnabled |-> FALSE,
               srchEnabled |-> FALSE, loading |-> FALSE, value |-> "",
               filters |-> "", satisfied |-> FALSE],
                                \* dependency values of the last effect pass
     dataFresh |-> FALSE,       \* hook data is a new array since the last render
     errFresh |-> FALSE,        \* hook error is a new object since the last render
     optsIsData |-> FALSE,      \* state.options is the hook's data array
     optsFresh |-> FALSE,       \* state.options is a new array since the last render
     filtIsOpts |-> FALSE,      \* the memoised filteredOptions is state.options
     dirty |-> TRUE,            \* a render of the field is scheduled
     propsFresh |-> FALSE]      \* the page re-rendered: new parentFilters object

\* user events and request failures explored
MaxTypes == 2
MaxFailures == 1

\* one user event of a scenario: the handler `kind` of field f
Ev(f, kind) == [f |-> f, kind |-> kind]

\* n times the same user event
Repeat(n, e) == [i \in 1..n |-> e]

\* a check of the parent filters that any values pass
ParentFiltersSatisfiedAlways(pf) == TRUE

\* parentFiltersSatisfied (lines 106-110)
ParentFiltersSatisfied(pf) ==
    IF Len(pf) > 0 THEN \A i \in 1..Len(pf) : pf[i][2] # "" ELSE TRUE

(***************************************************************************)
(* cascading-combobox.tsx: one render of a field and its effects           *)
(***************************************************************************)
RunResetNever(mount, filtersChanged, hasParentDependencies) == FALSE

RunResetOnMount(mount, filtersChanged, hasParentDependencies) ==
    mount /\ hasParentDependencies

\* the reset effect runs on mount and when JSON.stringify(parentFilters)
\* changed, and acts only on a field that has parent filters
RunReset(mount, filtersChanged, hasParentDependencies) ==
    (mount \/ filtersChanged) /\ hasParentDependencies

\* what a render of a field computes before its hooks (lines 106-127)
RenderProps(f, c) ==
    LET pf == ParentFilters(f, value)
        hasParentDependencies == Len(pf) > 0
        satisfied == ParentFiltersSatisfied(pf)
        mount == ~c.seen.mounted
    IN  [pf |-> pf,
         pfStr |-> JsonObject(pf),
         hasParentDependencies |-> hasParentDependencies,
         satisfied |-> satisfied,
         mount |-> mount,
         filtersFresh |-> mount \/ DefaultFilters(f) \/ c.propsFresh,
         q |-> c.st.inputValue,
         preEnabled |-> Prefetch[f] /\ satisfied /\ ~hasParentDependencies,
         srchEnabled |-> ~Prefetch[f] /\ satisfied /\ Len(c.st.inputValue) >= MinChars]

\* usePrefetch effect, deps [endpoint, parentFilters, enabled]
PrefetchEffect(f, c, p, s) ==
    LET runPre == (p.filtersFresh \/ p.preEnabled # c.seen.preEnabled) /\ p.preEnabled
        preHit == GetValue(s, PrefetchKey(f, p.pf), now, Ttl)
    IN  IF ~runPre THEN [pre |-> "none", hook |-> c.hook]
        ELSE IF preHit.kind = "entry"
        THEN [pre |-> "hit",
              hook |-> [c.hook EXCEPT !.data = preHit.data, !.isLoading = FALSE]]
        ELSE [pre |-> "miss", hook |-> [c.hook EXCEPT !.isLoading = TRUE]]

\* useDebouncedSearch effect, deps [refetch]: cleanup, then refetch
SearchEffect(c, p, hook1) ==
    LET runSrch == \/ p.filtersFresh
                   \/ p.q # c.seen.query
                   \/ p.srchEnabled # c.seen.srchEnabled
        cleanup == runSrch /\ ~p.mount
        refetch == runSrch /\ p.srchEnabled
        short == refetch /\ Len(p.q) < MinChars
        arm == refetch /\ ~short
        abort == (cleanup \/ refetch) /\ c.ctl = "live"
        timers1 == IF cleanup \/ refetch THEN ClearTimeout(c.timers) ELSE c.timers
    IN  [short |-> short,
         arm |-> arm,
         abort |-> abort,
         hook |-> IF short THEN [hook1 EXCEPT !.data = <<>>, !.isLoading = FALSE]
                  ELSE IF arm THEN [hook1 EXCEPT !.isLoading = TRUE]
                  ELSE hook1,
         ctl |-> IF arm THEN "live" ELSE IF abort THEN "aborted" ELSE c.ctl,
         timers |-> IF arm THEN SetTimeout(timers1, p.q, p.pf) ELSE timers1]

\* options effect, deps [fetchedData, fetchLoading, fetchError]
OptionsEffect(c, runOpts) ==
    IF runOpts
    THEN <<Act("SET_OPTIONS", c.hook.data), Act("SET_LOADING", c.hook.isLoading)>>
         \o (IF c.hook.error # NoMsg THEN <<Act("SET_ERROR", c.hook.error)>> ELSE <<>>)
    ELSE <<>>

\* useMemo of filteredOptions, deps [inputValue, options, prefetch], and the
\* effect that stores its result
FilteredOptions(f, c, p) ==
    LET recomputed == p.mount \/ p.q # c.seen.query \/ c.optsFresh
        viaSearch == p.q = "" \/ Prefetch[f]
        isPass == IF viaSearch THEN Blank(p.q) ELSE TRUE
        resultNew == \/ p.mount
                     \/ recomputed /\ (IF isPass THEN c.optsFresh \/ ~c.filtIsOpts ELSE TRUE)
    IN  [recomputed |-> recomputed,
         isPass |-> isPass,
         acts |-> IF resultNew
                  THEN <<Act("SET_FILTERED_OPTIONS",
                             IF viaSearch THEN LocalFilter(p.q, c.st.options)
                             ELSE c.st.options)>>
                  ELSE <<>>]

\* sync effect, deps [value]
SyncEffect(f, c, p) ==
    IF (p.mount \/ value[f] # c.seen.value) /\ value[f] # c.st.selectedValue
    THEN <<Act("SET_SELECTED_VALUE", value[f])>> ELSE <<>>

\* the state of the field after the render and its effects
RenderCommit(f, c, p, pre, srch, memo, runReset) ==
    LET runOpts == \/ p.mount
                   \/ c.dataFresh
                   \/ c.errFresh
                   \/ c.hook.isLoading # c.seen.loading
        acts == OptionsEffect(c, runOpts) \o memo.acts \o SyncEffect(f, c, p)
                \o (IF runReset THEN <<Act("RESET", "")>> ELSE <<>>)
        dataSet == pre.pre = "hit" \/ srch.short
    IN  [c |-> [st |-> Dispatch(c.st, acts),
                highlightedIndex |-> c.highlightedIndex,
                hook |-> srch.hook,
                ctl |-> srch.ctl,
                timers |-> srch.timers,
                seen |-> [mounted |-> TRUE, query |-> p.q, preEnabled |-> p.preEnabled,
                          srchEnabled |-> p.srchEnabled, loading |-> c.hook.isLoading,
                          value |-> value[f], filters |-> p.pfStr,
                          satisfied |-> p.satisfied],
                dataFresh |-> dataSet,
                errFresh |-> FALSE,
                optsIsData |-> IF runReset \/ dataSet THEN FALSE
                               ELSE IF runOpts THEN TRUE ELSE c.optsIsData,
                optsFresh |-> runReset \/ (runOpts /\ ~c.optsIsData),
                filtIsOpts |-> IF memo.recomputed THEN memo.isPass ELSE c.filtIsOpts,
                dirty |-> \/ acts # <<>>
                          \/ dataSet
                          \/ srch.hook.isLoading # c.hook.isLoading,
                propsFresh |-> FALSE],
         pre |-> pre.pre,
         preKey |-> PrefetchKey(f, p.pf),
         pf |-> p.pf,
         abort |-> srch.abort,
         arm |-> srch.arm,
         reset |-> runReset]

\* the effects in the order of their declaration; the reset effect has
\* deps [JSON.stringify(parentFilters)]
RenderEffects(f, c, p, pre) ==
    RenderCommit(f, c, p, pre, SearchEffect(c, p, pre.hook), FilteredOptions(f, c, p),
                 RunReset(p.mount, p.pfStr # c.seen.filters, p.hasParentDependencies))

RenderField(f, c, p, s) == RenderEffects(f, c, p, PrefetchEffect(f, c, p, s))

\* one render of field f, with the cache contents s
RenderOut(f, s) == RenderField(f, field[f], RenderProps(f, field[f]), s)

\* the page before its first effects have run
InitPage ==
    /\ value = [f \in Fields |-> ""]
    /\ field = [f \in Fields |-> InitialField]
    /\ net = {}
    /\ obs = [f \in Fields |-> [attempts |-> 0, burst |-> 0,
                               needsClear |-> FALSE, cleared |-> FALSE]]

(***************************************************************************)
(* Cache-only specification: callers issue put / get / clear               *)
(***************************************************************************)
InitCache ==
    /\ store = [sk \in {OtherKey} |-> [kind |-> "raw", text |-> "value"]]
    /\ now = 0
    /\ lastOp = [op |-> "init"]
    /\ InitPage
    /\ budget = [user |-> <<>>, fail |-> 0]

\* setCacheEntry(key, data, etag, {ttl}): only keyPrefix and maxEntries are
\* read from the config, the ttl it carries is not used
Put(key, p, outcome, ttl) ==
    \E rm1 \in ToRemoveChoices(store, MaxEntries) :
      \E rm2 \in ToRemoveChoices(RemoveItems(store, rm1), MaxEntries \div 2) :
        /\ store' = PutStore(store, key, p.data, p.etag, now, outcome, rm1, rm2)
        /\ lastOp' = [op |-> "put", key |-> key, data |-> p.data, etag |-> p.etag,
                      at |-> now, outcome |-> outcome, ttl |-> ttl,
                      toRemove |-> IF outcome = "ok" THEN rm1 ELSE rm1 \cup rm2]
        /\ UNCHANGED <<now, value, field, net, obs, budget>>

Get(key, ttl) ==
    /\ store' = GetStore(store, key, now, ttl)
    /\ lastOp' = [op |-> "get", key |-> key, ttl |-> ttl, at |-> now,
                  item |-> GetItem(store, StorageKeyOf(key)),
                  result |-> GetValue(store, key, now, ttl)]
    /\ UNCHANGED <<now, value, field, net, obs, budget>>

Clear ==
    /\ store' = ClearStore(store)
    /\ lastOp' = [op |-> "clear", removed |-> EntryCount(store)]
    /\ UNCHANGED <<now, value, field, net, obs, budget>>

Tick ==
    /\ now < MaxTime
    /\ now' = now + 1
    /\ UNCHANGED <<store, lastOp, value, field, net, obs, budget>>

\* the callers of the hooks put with the default configuration
NextCache ==
    \/ \E k \in CacheKeys, p \in Payloads, o \in WriteOutcomes : Put(k, p, o, Ttl)
    \/ \E k \in CacheKeys, ttl \in TtlChoices : Get(k, ttl)
    \/ Clear
    \/ Tick

SpecCache == InitCache /\ [][NextCache]_vars

\* callers that also pass a ttl of their own to setCacheEntry
NextConfigured ==
    \/ \E k \in CacheKeys, p \in Payloads, o \in WriteOutcomes, ttl \in TtlChoices :
          Put(k, p, o, ttl)
    \/ \E k \in CacheKeys, ttl \in TtlChoices : Get(k, ttl)
    \/ Clear
    \/ Tick

SpecConfigured == InitCache /\ [][NextConfigured]_vars

\* maxEntries passed in the config argument of setCacheEntry
QuotaEntries == 2 * MaxEntries

\* setCacheEntry(key, data, etag, {maxEntries}): writes counts the calls of
\* sessionStorage.setItem, retry is the toRemove slice of the eviction that
\* follows the quota error
PutWith(key, p, outcome, maxEntries) ==
    \E rm1 \in ToRemoveChoices(store, maxEntries) :
      \E rm2 \in ToRemoveChoices(RemoveItems(store, rm1), maxEntries \div 2) :
        /\ store' = PutStore(store, key, p.data, p.etag, now, outcome, rm1, rm2)
        /\ lastOp' = [op |-> "put", key |-> key, data |-> p.data, etag |-> p.etag,
                      at |-> now, outcome |-> outcome, maxEntries |-> maxEntries,
                      writes |-> IF outcome = "ok" THEN 1 ELSE 2,
                      toRemove |-> IF outcome = "ok" THEN rm1 ELSE rm1 \cup rm2,
                      retry |-> IF outcome = "ok" THEN {} ELSE rm2]
        /\ UNCHANGED <<now, value, field, net, obs, budget>>

\* the option list and validator written by these callers
QuotaPayload == [data |-> <<Opt("1", "Nike")>>, etag |-> "abc123"]

\* callers that pass a maxEntries of their own to setCacheEntry
NextQuota ==
    \/ \E k \in CacheKeys, o \in WriteOutcomes :
          PutWith(k, QuotaPayload, o, QuotaEntries)
    \/ Tick

SpecQuota == InitCache /\ [][NextQuota]_vars

\* text under a cache key that JSON.parse rejects
CorruptItem == [kind |-> "raw", text |-> "{\"data\":["]

\* a session whose storage already holds an unparsable value under one
\* cache key
InitCorrupt ==
    /\ store = [sk \in {OtherKey, StorageKeyOf("/api/e1:")} |->
                  IF sk = OtherKey THEN [kind |-> "raw", text |-> "value"]
                  ELSE CorruptItem]
    /\ now = 0
    /\ lastOp = [op |-> "init"]
    /\ InitPage
    /\ budget = [user |-> <<>>, fail |-> 0]

SpecCorrupt == InitCorrupt /\ [][NextCache]_vars

(***************************************************************************)
(* The page: scheduling of renders, timers and responses                   *)
(***************************************************************************)
\* a cancelled fetch has rejected and its handler has not run yet
Settling == \E r \in net : r.aborted

InFlight(f) == { r \in net : r.f = f }

\* a request on the network; the superseded requests of a field that agree
\* in everything are followed as one
NewRequest(f, kind, key, pf, q, aborted) ==
    [f |-> f, kind |-> kind, key |-> key, pf |-> pf, q |-> q,
     aborted |-> aborted,       \* its signal is aborted
     cur |-> TRUE,              \* its signal belongs to abortControllerRef.current
     latest |-> TRUE]           \* no later attempt of the field has started

\* a render that read the cache and left the field as it was
Unchanging(f, o) == o.pre = "hit" /\ o.c = field[f]

\* React has no render left to run, or the render it keeps scheduling (the
\* prefetch effect of a field with default filters on a cache hit) changes
\* nothing; timers, responses and user events are handled in such states
Stable ==
    /\ ~Settling
    /\ \A f \in Fields :
         field[f].dirty =>
            /\ Prefetch[f] /\ DefaultFilters(f)
            /\ Unchanging(f, RenderOut(f, store))

Min2(a) == IF a > 2 THEN 2 ELSE a

\* bookkeeping: the fetch attempts of a field since the last user event, the
\* input changes since its last attempt, and whether its filter values
\* changed while it held a value that has not been cleared since
ObsNext(newField, newValue, kind, f0) ==
    [f \in Fields |->
        [attempts |-> IF kind \in {"user", "type"} THEN 0
                      ELSE IF kind = "timer" /\ f = f0 THEN Min2(obs[f].attempts + 1)
                      ELSE obs[f].attempts,
         burst |-> IF kind = "type" /\ f = f0 THEN Min2(obs[f].burst + 1)
                   ELSE IF kind = "timer" /\ f = f0 THEN 0
                   ELSE obs[f].burst,
         needsClear |->
            IF newField[f].st.selectedValue = "" /\ newValue[f] = "" THEN FALSE
            ELSE IF ParentFilters(f, newValue) # ParentFilters(f, value) THEN TRUE
            ELSE obs[f].needsClear,
         cleared |->
            \/ obs[f].cleared
            \/ /\ obs[f].needsClear
               /\ newField[f].st.selectedValue = "" /\ newValue[f] = ""]]

\* setState of the page: every field re-renders with new props
PageRender(newField, changed) ==
    [f \in Fields |->
        IF changed THEN [newField[f] EXCEPT !.dirty = TRUE, !.propsFresh = TRUE]
        ELSE newField[f]]

UserCan(f, kind) ==
    /\ budget.user # <<>>
    /\ Head(budget.user) = Ev(f, kind)
    /\ field[f].seen.mounted
    /\ field[f].seen.satisfied
    /\ Stable

\* handleInputChange
Type(f, text) ==
    /\ UserCan(f, "type")
    /\ text # field[f].st.inputValue
    /\ LET c == field[f]
           acts == <<Act("SET_INPUT_VALUE", text), Act("SET_OPEN", TRUE)>>
                   \o (IF c.st.isTouched /\ c.st.validationError # NoMsg
                       THEN <<Act("SET_VALIDATION_ERROR", NoMsg)>> ELSE <<>>)
           nf == [field EXCEPT ![f] = [c EXCEPT !.st = Dispatch(c.st, acts),
                                                !.highlightedIndex = 0,
                                                !.dirty = TRUE]]
       IN  /\ field' = nf
           /\ obs' = ObsNext(nf, value, "type", f)
    /\ budget' = [budget EXCEPT !.user = Tail(@)]
    /\ lastOp' = [op |-> "type", f |-> f, text |-> text]
    /\ UNCHANGED <<store, now, value, net>>

\* onOpenChange of the popover
OpenChange(f, open) ==
    /\ UserCan(f, "open")
    /\ open # field[f].st.isOpen
    /\ LET c == field[f]
           nf == [field EXCEPT ![f] = [c EXCEPT !.st = Dispatch(c.st, <<Act("SET_OPEN", open)>>),
                                                !.dirty = TRUE]]
       IN  /\ field' = nf
           /\ obs' = ObsNext(nf, value, "user", f)
    /\ budget' = [budget EXCEPT !.user = Tail(@)]
    /\ lastOp' = [op |-> "open", f |-> f, open |-> open]
    /\ UNCHANGED <<store, now, value, net>>

\* a selection that leaves the list open
SelectActsKeepOpen(option) ==
    <<Act("SET_SELECTED_VALUE", option.value),
      Act("SET_INPUT_VALUE", option.label)>>

\* the dispatches of handleSelectOption
SelectActs(option) ==
    <<Act("SET_SELECTED_VALUE", option.value),
      Act("SET_INPUT_VALUE", option.label),
      Act("SET_OPEN", FALSE)>>

\* handleSelectOption
SelectOption(f, i) ==
    /\ UserCan(f, "select")
    /\ field[f].st.isOpen
    /\ i \in 1..Len(field[f].st.filteredOptions)
    /\ LET c == field[f]
           option == c.st.filteredOptions[i]
           acts == SelectActs(option)
           nv == [value EXCEPT ![f] = option.value]
           nf == PageRender([field EXCEPT ![f] = [c EXCEPT !.st = Dispatch(c.st, acts),
                                                           !.dirty = TRUE]],
                            nv # value)
       IN  /\ field' = nf
           /\ value' = nv
           /\ obs' = ObsNext(nf, nv, "user", f)
           /\ lastOp' = [op |-> "select", f |-> f, value |-> option.value,
                         label |-> option.label, onChange |-> <<option.value>>,
                         changed |-> nv # value]
    /\ budget' = [budget EXCEPT !.user = Tail(@)]
    /\ UNCHANGED <<store, now, net>>

\* handleCreateCustom (allowCustom defaults to true)
CreateCustom(f) ==
    /\ UserCan(f, "create")
    /\ field[f].st.isOpen
    /\ field[f].st.inputValue # ""
    /\ LET c == field[f]
           acts == <<Act("SET_SELECTED_VALUE", c.st.inputValue),
                     Act("SET_OPEN", FALSE)>>
           nv == [value EXCEPT ![f] = c.st.inputValue]
           nf == PageRender([field EXCEPT ![f] = [c EXCEPT !.st = Dispatch(c.st, acts),
                                                           !.dirty = TRUE]],
                            nv # value)
       IN  /\ field' = nf
           /\ value' = nv
           /\ obs' = ObsNext(nf, nv, "user", f)
           /\ lastOp' = [op |-> "create", f |-> f, value |-> c.st.inputValue,
                         changed |-> nv # value]
    /\ budget' = [budget EXCEPT !.user = Tail(@)]
    /\ UNCHANGED <<store, now, net>>

\* the fields rendered in one pass, in document order
FieldOrder == <<"brand", "model", "modelNumber">>

\* a field that is not scheduled keeps its state and runs no effect
NotRendered(f) ==
    [c |-> field[f], pre |-> "none", preKey |-> "", pf |-> <<>>,
     abort |-> FALSE, arm |-> FALSE, reset |-> FALSE]

\* getCacheEntry of the prefetch effects of one pass, in document order
RECURSIVE PrefetchReads(_, _, _)
PrefetchReads(fs, out, s) ==
    IF fs = <<>> THEN s
    ELSE PrefetchReads(Tail(fs), out,
            IF out[Head(fs)].pre # "none"
            THEN GetStore(s, out[Head(fs)].preKey, now, Ttl) ELSE s)

\* the render of a scheduled field
RenderOrKeep(f) == IF field[f].dirty THEN RenderOut(f, store) ELSE NotRendered(f)

\* the state after the renders `out` of one pass
CommitPass(out) ==
    LET dirtyFields == { f \in Fields : field[f].dirty }
        starts == { f \in dirtyFields : out[f].pre = "miss" }
        attempts == { f \in dirtyFields : out[f].pre # "none" }
        resets == { f \in dirtyFields : out[f].reset }
        nv == [f \in Fields |-> IF f \in resets THEN "" ELSE value[f]]
        nf == PageRender([brand |-> out.brand.c, model |-> out.model.c,
                          modelNumber |-> out.modelNumber.c],
                         nv # value)
        After(r) ==
            IF r.f \notin dirtyFields THEN r
            ELSE [r EXCEPT
                    !.aborted = @ \/ (out[r.f].abort /\ r.cur /\ r.kind = "search"),
                    !.cur = @ /\ ~(out[r.f].arm /\ r.kind = "search"),
                    !.latest = @ /\ ~(r.f \in attempts /\ r.kind = "prefetch")]
    IN  /\ field' = nf
        /\ value' = nv
        /\ net' = { After(r) : r \in net }
                    \cup { NewRequest(f, "prefetch", out[f].preKey, out[f].pf, "", FALSE)
                             : f \in starts }
        /\ store' = PrefetchReads(FieldOrder, out, store)
        /\ obs' = ObsNext(nf, nv, "render", "")
        /\ lastOp' = [op |-> "render", resets |-> resets,
                      cleared |-> { f \in resets : field[f].st.selectedValue # "" },
                      armed |-> { f \in dirtyFields : out[f].arm },
                      prefetched |-> attempts]

\* React renders every scheduled field and runs its effects
RenderPass ==
    /\ { f \in Fields : field[f].dirty } # {}
    /\ ~Settling
    /\ CommitPass([brand |-> RenderOrKeep("brand"), model |-> RenderOrKeep("model"),
                   modelNumber |-> RenderOrKeep("modelNumber")])
    /\ UNCHANGED <<now, budget>>

\* a fetchData that calls the network whatever the cache holds
TimerRequestsAlways(f, t, key, hit, aborted) ==
    {NewRequest(f, "search", key, t.pf, t.query, aborted)}

\* the request fetchData puts on the network: none on a cache hit
TimerRequests(f, t, key, hit, aborted) ==
    IF hit THEN {}
    ELSE {NewRequest(f, "search", key, t.pf, t.query, aborted)}

\* the debounce timer callback: fetchData(query, signal)
TimerFire(f, t) ==
    /\ t \in field[f].timers
    /\ field[f].ctl # "null"
    /\ Stable
    /\ LET c == field[f]
           key == SearchKey(f, t.pf, t.query)
           cached == GetValue(store, key, now, Ttl)
           hit == cached.kind = "entry"
           c1 == [c EXCEPT !.timers = @ \ {t}]
           c2 == IF hit
                 THEN [c1 EXCEPT !.hook = [@ EXCEPT !.data = cached.data,
                                                   !.isLoading = FALSE],
                                 !.dataFresh = TRUE,
                                 !.optsIsData = FALSE,
                                 !.dirty = TRUE]
                 ELSE c1
           nf == [field EXCEPT ![f] = c2]
       IN  /\ field' = nf
           /\ store' = GetStore(store, key, now, Ttl)
           /\ net' = { IF r.f = f THEN [r EXCEPT !.latest = FALSE] ELSE r : r \in net }
                       \cup TimerRequests(f, t, key, hit, c.ctl = "aborted")
           /\ obs' = ObsNext(nf, value, "timer", f)
           /\ lastOp' = [op |-> "timer", f |-> f, query |-> t.query, key |-> key,
                         input |-> c.st.inputValue, burst |-> obs[f].burst,
                         newFilters |-> t.pf = ParentFilters(f, value),
                         unclear |-> { g \in Fields : obs[g].needsClear },
                         cleared |-> { g \in Fields : obs[g].cleared }]
    /\ UNCHANGED <<now, value, budget>>

\* a fetchData that leaves the cache as it is
CacheResultSkipped(s, key, data, t, outcome, rm1, rm2) == s

\* if (result.data) setCacheEntry(cacheKey, result.data, etag)
CacheResult(s, key, data, t, outcome, rm1, rm2) ==
    PutStore(s, key, data, GenerateETag(data), t, outcome, rm1, rm2)

\* a fetchData that a dropped cache write sends into its catch block
SettledHookThrowing(h, ok, data, outcome) ==
    IF ok /\ outcome # "retryFail"
    THEN [data |-> data, isLoading |-> FALSE, error |-> NoMsg]
    ELSE [h EXCEPT !.error = HttpError, !.isLoading = FALSE]

\* the hook state after the response: setData and setError(null), or
\* setError(err), and setIsLoading(false) of the finally block
SettledHook(h, ok, data, outcome) ==
    IF ok THEN [data |-> data, isLoading |-> FALSE, error |-> NoMsg]
    ELSE [h EXCEPT !.error = HttpError, !.isLoading = FALSE]

\* what fetchData does with the response: cache and state updates; outcome
\* is what sessionStorage.setItem does inside setCacheEntry
ApplyResponseWith(r, ok, data, outcome) ==
    LET c == field[r.f]
        c2 == IF ok
              THEN [c EXCEPT !.hook = SettledHook(c.hook, ok, data, outcome),
                             !.dataFresh = TRUE,
                             !.errFresh = @ \/ c.hook.error # NoMsg,
                             !.optsIsData = FALSE,
                             !.dirty = TRUE]
              ELSE [c EXCEPT !.hook = SettledHook(c.hook, ok, data, outcome),
                             !.errFresh = TRUE,
                             !.dirty = TRUE]
        nf == [field EXCEPT ![r.f] = c2]
    IN  /\ field' = nf
        /\ IF ok
           THEN \E rm1 \in ToRemoveChoices(store, MaxEntries) :
                \E rm2 \in ToRemoveChoices(RemoveItems(store, rm1), MaxEntries \div 2) :
                  store' = CacheResult(store, r.key, data, now, outcome, rm1, rm2)
           ELSE store' = store
        /\ obs' = ObsNext(nf, value, "network", r.f)
        /\ lastOp' = [op |-> "respond", f |-> r.f, kind |-> r.kind, ok |-> ok,
                      latest |-> r.latest, key |-> r.key, data |-> data,
                      write |-> outcome,
                      onError |-> ~ok /\ r.kind = "search"]

\* the response of a request arrives and the cache write has the outcome
RespondWith(r, ok, outcome) ==
    /\ r \in net
    /\ ~r.aborted
    /\ ok \/ budget.fail > 0
    /\ Stable
    /\ ApplyResponseWith(r, ok, ServerData(r.f, r.pf, r.q), outcome)
    /\ net' = net \ {r}
    /\ budget' = [budget EXCEPT !.fail = IF ok THEN @ ELSE @ - 1]
    /\ UNCHANGED <<now, value>>

\* the response of a request arrives: the rest of fetchData, with a storage
\* that accepts the write
Respond(r, ok) == RespondWith(r, ok, "ok")

\* the handler of a cancelled request: catch (AbortError) and finally
SettleAborted(r) ==
    /\ r \in net
    /\ r.aborted
    /\ LET c == field[r.f]
           h2 == [c.hook EXCEPT !.isLoading = FALSE]
           nf == [field EXCEPT ![r.f] = [c EXCEPT !.hook = h2,
                                                  !.dirty = @ \/ h2 # c.hook]]
       IN  /\ field' = nf
           /\ obs' = ObsNext(nf, value, "network", r.f)
           /\ lastOp' = [op |-> "cancelled", f |-> r.f,
                         changed |-> h2 # c.hook, onError |-> FALSE]
    /\ net' = net \ {r}
    /\ UNCHANGED <<store, now, value, budget>>

\* the page with the user events and the request failures left to explore
InitWith(user, fail) ==
    /\ store = [sk \in {OtherKey} |-> [kind |-> "raw", text |-> "value"]]
    /\ now = 0
    /\ lastOp = [op |-> "init"]
    /\ InitPage
    /\ budget = [user |-> user, fail |-> fail]

\* the form after construction; the user picks a brand, types a burst into
\* the model field and keeps what was typed
Init ==
    InitWith(<<Ev("brand", "open"), Ev("brand", "select")>>
             \o Repeat(MaxTypes, Ev("model", "type"))
             \o <<Ev("model", "create")>>, MaxFailures)

\* the form after construction; the user fills the three fields in turn,
\* changes the brand and types into the model field again
InitChain ==
    InitWith(<<Ev("brand", "open"), Ev("brand", "select"),
               Ev("model", "type"), Ev("model", "create"),
               Ev("modelNumber", "type"), Ev("modelNumber", "create"),
               Ev("brand", "type"), Ev("brand", "create")>>
             \o Repeat(MaxTypes - 1, Ev("model", "type")), 0)

Next ==
    \/ \E f \in Fields : \E text \in InputTexts(f) : Type(f, text)
    \/ \E f \in Fields : \E open \in BOOLEAN : OpenChange(f, open)
    \/ \E f \in Fields : \E i \in 1..Len(field[f].st.filteredOptions) : SelectOption(f, i)
    \/ \E f \in Fields : CreateCustom(f)
    \/ RenderPass
    \/ \E f \in Fields : \E t \in field[f].timers : TimerFire(f, t)
    \/ \E r \in net : \E ok \in BOOLEAN : Respond(r, ok)
    \/ \E r \in net : SettleAborted(r)

Spec == Init /\ [][Next]_vars

SpecChain == InitChain /\ [][Next]_vars

\* a form whose owner starts with a brand and a model already chosen
\* (useState('1'), useState('4')); the user then re-opens the brand list,
\* picks a brand and types into the model field
InitPrefilled ==
    /\ store = [sk \in {OtherKey} |-> [kind |-> "raw", text |-> "value"]]
    /\ now = 0
    /\ lastOp = [op |-> "init"]
    /\ value = [brand |-> "1", model |-> "4", modelNumber |-> ""]
    /\ field = [f \in Fields |-> InitialField]
    /\ net = {}
    /\ obs = [f \in Fields |-> [attempts |-> 0, burst |-> 0,
                               needsClear |-> FALSE, cleared |-> FALSE]]
    /\ budget = [user |-> <<Ev("brand", "open"), Ev("brand", "select")>>
                          \o Repeat(MaxTypes, Ev("model", "type"))
                          \o <<Ev("model", "create")>>,
                 fail |-> MaxFailures]

SpecPrefilled == InitPrefilled /\ [][Next]_vars

\* the page has been unmounted: no user event is left to handle
Unmounted == budget.user = <<Ev("page", "gone")>>

\* React unmounts the page and runs the effect cleanups of every field: the
\* cleanup of useDebouncedSearch aborts the controller and clears the timer
\* of the ref; usePrefetch registers no cleanup
UnmountPage ==
    /\ ~Unmounted
    /\ \A f \in Fields : field[f].seen.mounted
    /\ field' = [f \in Fields |->
                    [field[f] EXCEPT !.timers = ClearTimeout(@),
                                     !.ctl = IF @ = "null" THEN "null" ELSE "aborted",
                                     !.dirty = FALSE]]
    /\ net' = { IF r.kind = "search" /\ r.cur THEN [r EXCEPT !.aborted = TRUE] ELSE r
                  : r \in net }
    /\ budget' = [budget EXCEPT !.user = <<Ev("page", "gone")>>]
    /\ lastOp' = [op |-> "unmount", pending |-> { r.f : r \in net }]
    /\ UNCHANGED <<store, now, value, obs>>

\* the promise of a request settles after the unmount: an aborted one
\* rejects, any other runs the rest of fetchData, whose setState calls on
\* the unmounted component change nothing
AfterUnmount(r) ==
    /\ Unmounted
    /\ r \in net
    /\ IF r.aborted THEN store' = store
       ELSE \E rm1 \in ToRemoveChoices(store, MaxEntries) :
            \E rm2 \in ToRemoveChoices(RemoveItems(store, rm1), MaxEntries \div 2) :
              store' = CacheResult(store, r.key, ServerData(r.f, r.pf, r.q), now,
                                   "ok", rm1, rm2)
    /\ net' = net \ {r}
    /\ lastOp' = [op |-> "settled", f |-> r.f, kind |-> r.kind,
                  aborted |-> r.aborted]
    /\ UNCHANGED <<now, value, field, obs, budget>>

\* the page until and after its unmount
NextUnmount ==
    \/ ~Unmounted /\ Next
    \/ UnmountPage
    \/ \E r \in net : AfterUnmount(r)

SpecUnmount == Init /\ [][NextUnmount]_vars

\* the storage key the page uses for the models of brand 1 that match "Zo"
ZoKey == StorageKeyOf(SearchKey("model", << <<"brandId", "1">> >>, "Zo"))

\* the form after construction, over a storage in which the item under
\* ZoKey may have been damaged; the user picks a brand and types three texts
\* into the model field
InitStorage ==
    /\ store \in { [sk \in {OtherKey} |-> [kind |-> "raw", text |-> "value"]],
                   [sk \in {OtherKey, ZoKey} |->
                       IF sk = OtherKey THEN [kind |-> "raw", text |-> "value"]
                       ELSE CorruptItem] }
    /\ now = 0
    /\ lastOp = [op |-> "init"]
    /\ InitPage
    /\ budget = [user |-> <<Ev("brand", "open"), Ev("brand", "select")>>
                          \o <<Ev("model", "type"), Ev("model", "type"),
                               Ev("model", "type")>>,
                 fail |-> 0]

\* the page over a storage whose writes can fail and whose entries age
NextStorage ==
    \/ \E f \in Fields : \E text \in InputTexts(f) : Type(f, text)
    \/ \E f \in Fields : \E open \in BOOLEAN : OpenChange(f, open)
    \/ \E f \in Fields : \E i \in 1..Len(field[f].st.filteredOptions) : SelectOption(f, i)
    \/ RenderPass
    \/ \E f \in Fields : \E t \in field[f].timers : TimerFire(f, t)
    \/ \E r \in net : \E ok \in BOOLEAN, o \in WriteOutcomes : RespondWith(r, ok, o)
    \/ \E r \in net : SettleAborted(r)
    \/ Tick

SpecStorage == InitStorage /\ [][NextStorage]_vars

\* a render is scheduled that changes the state of some field
RenderDue == ~Settling /\ ~Stable

\* React runs every render it has scheduled (weak fairness of RenderPass,
\* with its enabling condition written out as RenderDue), and the handler
\* of a rejected fetch runs
SpecChainFair ==
    /\ InitChain /\ [][Next]_vars
    /\ ([]<>(~RenderDue) \/ []<><<lastOp'.op = "render">>_vars)
    /\ WF_vars(\E r \in net : SettleAborted(r))

(***************************************************************************)
(* Request and cascade properties                                          *)
(***************************************************************************)
\* the requests of a field that have not been cancelled
Live(f) == { r \in InFlight(f) : ~r.aborted }

\* C1: in every reachable state each field has at most one network request
\* in flight (a new attempt cancels the previous one first).
C1_OneInFlight == \A f \in Fields : Cardinality(Live(f)) <= 1

\* C2: the data of a field is only set from its latest attempt: a response
\* of a superseded attempt is never applied.
C2_NoStaleResponse ==
    (lastOp.op = "respond" /\ lastOp.ok) => lastOp.latest

\* C3: the handler of a cancelled attempt changes none of data, error and
\* isLoading of the field and does not call onError.
C3_CancelledNoEffect ==
    lastOp.op = "cancelled" => (~lastOp.changed /\ ~lastOp.onError)

C5_ClearedBeforeFetch ==
    lastOp.op = "timer" => lastOp.unclear = {}

\* a Model fetch starts under new filter values after a brand change has
\* cleared Model and ModelNumber
C5_Witness ==
    /\ lastOp.op = "timer"
    /\ lastOp.f = "model"
    /\ lastOp.newFilters
    /\ lastOp.cleared = {"model", "modelNumber"}

\* the brand value has just been changed by the user
BrandChanged ==
    /\ lastOp.op \in {"select", "create"}
    /\ lastOp.f = "brand"
    /\ lastOp.changed

Emptied(f) == field[f].st.selectedValue = "" /\ field[f].st.inputValue = ""

\* C6: a change of the first field's value eventually leaves the second and
\* the third field with empty selectedValue and empty inputText.
C6_TransitiveReset == BrandChanged ~> (Emptied("model") /\ Emptied("modelNumber"))

\* the brand changes while Model and ModelNumber hold a value
C6_Witness ==
    /\ BrandChanged
    /\ field["model"].st.selectedValue # ""
    /\ field["modelNumber"].st.selectedValue # ""

(***************************************************************************)
(* Cache layer properties                                                  *)
(***************************************************************************)
\* the entries left in the store
Retained(s) == { sk \in DOMAIN s : StartsWith(sk, KeyPrefix) }

\* C7: after any sequence of put, get and clear the number of entries under
\* the cache prefix never exceeds maxEntries, and a put whose write succeeded
\* has evicted and inserted in the same step (its key is present).
C7_CapacityInvariant ==
    /\ EntryCount(store) <= MaxEntries
    /\ (lastOp.op = "put" /\ lastOp.outcome # "retryFail")
         => GetItem(store, StorageKeyOf(lastOp.key)).kind = "json"

\* C7 witness: a put found the cache full, evicted, and inserted a new key
C7_Witness ==
    /\ lastOp.op = "put"
    /\ lastOp.outcome = "ok"
    /\ lastOp.toRemove # {}
    /\ \A e \in lastOp.toRemove : e.key # StorageKeyOf(lastOp.key)
    /\ EntryCount(store) = MaxEntries

\* C8: after a put the cache holds at most maxEntries entries and no retained
\* entry has a storedAt smaller than that of an entry the put evicted.
C8_RetainsMostRecent ==
    lastOp.op = "put" =>
        /\ EntryCount(store) <= MaxEntries
        /\ \A e \in lastOp.toRemove, sk \in Retained(store) :
              e.timestamp <= store[sk].timestamp

\* C8 witness: more than maxEntries distinct keys were put; the oldest entry
\* was evicted and a strictly newer old entry is retained
C8_Witness ==
    /\ lastOp.op = "put"
    /\ lastOp.outcome = "ok"
    /\ EntryCount(store) = MaxEntries
    /\ \E e \in lastOp.toRemove, sk \in Retained(store) :
          /\ sk # StorageKeyOf(lastOp.key)
          /\ e.timestamp < store[sk].timestamp

\* what get(key) returns right after the last put, for a positive ttl
RoundTrips ==
    \A ttl \in { x \in TtlChoices : x > 0 } :
        LET r == GetValue(store, lastOp.key, lastOp.at, ttl)
        IN  /\ r.kind = "entry"
            /\ r.data = lastOp.data
            /\ r.etag = lastOp.etag

C10_ExpiryOnGet ==
    (lastOp.op = "get" /\ lastOp.item.kind = "json") =>
        LET sk == StorageKeyOf(lastOp.key)
        IN  IF lastOp.at - lastOp.item.timestamp > lastOp.ttl
            THEN lastOp.result = Null /\ GetItem(store, sk) = NoItem
            ELSE /\ lastOp.result = ParseEntry(lastOp.item)
                 /\ GetItem(store, sk) = lastOp.item

\* C10 witness: a get under the default ttl found an expired entry
C10_Witness ==
    /\ lastOp.op = "get"
    /\ lastOp.item.kind = "json"
    /\ lastOp.ttl = Ttl
    /\ lastOp.at - lastOp.item.timestamp > Ttl
    /\ lastOp.result = Null

\* C11: after a put made with a negative ttl in its configuration, a get on
\* the same key (with the default configuration, as the callers and the test
\* of the cache make it) returns a miss.
C11_NegativeTtlMiss ==
    (lastOp.op = "put" /\ lastOp.ttl < 0) =>
        GetValue(store, lastOp.key, now, Ttl) = Null

\* C12: a get on a key whose stored value cannot be parsed returns a miss
\* without raising, and the malformed value is no longer in the store.
C12_CorruptRemoved ==
    (lastOp.op = "get" /\ lastOp.item.kind = "raw") =>
        /\ lastOp.result = Null
        /\ GetItem(store, StorageKeyOf(lastOp.key)) = NoItem

\* the items stored under keys outside the cache prefix
Foreign(s) == { sk \in DOMAIN s : ~StartsWith(sk, KeyPrefix) }

\* C13: no put (with its eviction passes), get or clear removes or modifies
\* an item whose key does not start with the cache prefix, and after a clear
\* no item under the prefix is left.
C13_ForeignKeysUntouched ==
    [][/\ \A sk \in Foreign(store) : sk \in DOMAIN store' /\ store'[sk] = store[sk]
       /\ lastOp'.op = "clear" => Retained(store') = {}]_vars

\* C13 witness: a clear removed a full cache and the item of the hosting
\* application is still stored
C13_Witness ==
    /\ lastOp.op = "clear"
    /\ lastOp.removed = MaxEntries
    /\ GetItem(store, OtherKey) = [kind |-> "raw", text |-> "value"]

(***************************************************************************)
(* generateCacheKey as a function of its arguments                         *)
(***************************************************************************)
KeyEndpoints == {"/api/brands", "/api/models"}
KeyNames == {"brandId", "q"}
KeyValues == {"1", "2"}

\* the filter objects: name/value pairs in the order of their insertion
FilterObjects ==
    {<<>>}
    \cup { << <<n, v>> >> : n \in KeyNames, v \in KeyValues }
    \cup { o \in { << <<n1, v1>>, <<n2, v2>> >> :
                       n1 \in KeyNames, n2 \in KeyNames,
                       v1 \in KeyValues, v2 \in KeyValues } : o[1][1] # o[2][1] }

KeyCalls == [endpoint : KeyEndpoints, filters : FilterObjects]

\* two calls of generateCacheKey are about to be made
InitKey ==
    /\ \E a \in KeyCalls, b \in KeyCalls : lastOp = [op |-> "args", a |-> a, b |-> b]
    /\ store = [sk \in {OtherKey} |-> [kind |-> "raw", text |-> "value"]]
    /\ now = 0
    /\ InitPage
    /\ budget = [user |-> <<>>, fail |-> 0]

GenerateKeys ==
    /\ lastOp.op = "args"
    /\ lastOp' = [op |-> "keys", a |-> lastOp.a, b |-> lastOp.b,
                  ka |-> GenerateCacheKey(lastOp.a.endpoint, lastOp.a.filters),
                  kb |-> GenerateCacheKey(lastOp.b.endpoint, lastOp.b.filters)]
    /\ UNCHANGED <<store, now, value, field, net, obs, budget>>

SpecKey == InitKey /\ [][GenerateKeys]_vars

\* the name/value pairs of a filter object, without their order
PairsOf(filters) == { filters[i] : i \in 1..Len(filters) }

\* C14: two calls with the same endpoint and the same name/value pairs, in
\* any insertion order, return the same key, and calls whose endpoint or
\* pairs differ return different keys.
C14_KeyIgnoresOrder ==
    lastOp.op = "keys" =>
        (lastOp.ka = lastOp.kb
            <=> /\ lastOp.a.endpoint = lastOp.b.endpoint
                /\ PairsOf(lastOp.a.filters) = PairsOf(lastOp.b.filters))

\* C15: when the request of a search-mode field fails for a reason other than
\* cancellation, the data behind the field's option set is empty, the error
\* is stored for the field, onError has been invoked, and the field is left
\* without a pending load so that it takes further input.
C15_FailureEmptiesOptions ==
    (lastOp.op = "respond" /\ ~lastOp.ok /\ lastOp.kind = "search") =>
        /\ field[lastOp.f].hook.data = <<>>
        /\ field[lastOp.f].hook.error = HttpError
        /\ lastOp.onError
        /\ ~field[lastOp.f].hook.isLoading

\* C16: once the render that follows a change of the input of a search-mode
\* field to a text shorter than minChars is complete, the option set of the
\* field is empty, no debounce timer of the field is armed and no request of
\* the field is on the network.
C16_ShortInputClears ==
    \A f \in Fields :
        (/\ ~Prefetch[f]
         /\ obs[f].burst > 0
         /\ Len(field[f].st.inputValue) < MinChars
         /\ Stable /\ ~field[f].dirty) =>
            /\ field[f].st.options = <<>>
            /\ field[f].timers = {}
            /\ InFlight(f) = {}

MaxOptions == 3

SearchQueries == {"a", "B", "a b", " "}

SearchOptions ==
    { [value |-> "1", label |-> "A"],
      [value |-> "2", label |-> "ab"],
      [value |-> "3", label |-> "ba"],
      [value |-> "a", label |-> "x"],
      [value |-> "5", label |-> " "],
      [value |-> "6", label |-> " b"] }

\* the option lists without repeated options, up to MaxOptions long
OptionLists ==
    { l \in UNION { [1..n -> SearchOptions] : n \in 0..MaxOptions } :
        \A i \in 1..Len(l) : \A j \in 1..Len(l) : i # j => l[i] # l[j] }

\* a call of smartSearch is about to be made
InitSearch ==
    /\ \E q \in SearchQueries, l \in OptionLists :
          lastOp = [op |-> "searchArgs", query |-> q, options |-> l]
    /\ store = [sk \in {OtherKey} |-> [kind |-> "raw", text |-> "value"]]
    /\ now = 0
    /\ InitPage
    /\ budget = [user |-> <<>>, fail |-> 0]

ApplySmartSearch ==
    /\ lastOp.op = "searchArgs"
    /\ lastOp' = [op |-> "ranked", query |-> lastOp.query, options |-> lastOp.options,
                  result |-> SmartSearch(lastOp.query, lastOp.options)]
    /\ UNCHANGED <<store, now, value, field, net, obs, budget>>

SpecSearch == InitSearch /\ [][ApplySmartSearch]_vars

\* the class of an option for a query: 0 when its label or value equals the
\* query without regard to case, 1 when one of them only starts with it,
\* 2 otherwise
RankOf(o, query) ==
    LET q == ToLowerCase(query)
        l == ToLowerCase(o.label)
        v == ToLowerCase(o.value)
    IN  IF l = q \/ v = q THEN 0
        ELSE IF StartsWith(l, q) \/ StartsWith(v, q) THEN 1
        ELSE 2

\* no option of a list comes before an option of a better class
Ranked(l, query) ==
    \A i \in 1..Len(l) : \A j \in 1..Len(l) :
        i < j => RankOf(l[i], query) <= RankOf(l[j], query)

\* C18 as stated, for its exact and prefix matches: for every non-empty
\* query no option that only starts with the query comes before an option
\* that equals it in the result of smartSearch.
C18_RankedAlways ==
    (lastOp.op = "ranked" /\ lastOp.query # "") =>
        \A i \in 1..Len(lastOp.result) : \A j \in 1..Len(lastOp.result) :
            i < j => ~(/\ RankOf(lastOp.result[i], lastOp.query) = 1
                       /\ RankOf(lastOp.result[j], lastOp.query) = 0)

\* C18 amended: the ranking holds for every query that has a character other
\* than white space; a query of white space only returns the list as given.
C18_Ranked ==
    lastOp.op = "ranked" =>
        IF Blank(lastOp.query) THEN lastOp.result = lastOp.options
        ELSE Ranked(lastOp.result, lastOp.query)

\* C18 witness: a list given worst class first comes back with an exact, a
\* prefix and a fuzzy match in this order
C18_Witness ==
    /\ lastOp.op = "ranked"
    /\ ~Blank(lastOp.query)
    /\ ~Ranked(lastOp.options, lastOp.query)
    /\ Len(lastOp.result) = 3
    /\ RankOf(lastOp.result[1], lastOp.query) = 0
    /\ RankOf(lastOp.result[2], lastOp.query) = 1
    /\ RankOf(lastOp.result[3], lastOp.query) = 2

(***************************************************************************)
(* fuzzy-search.ts: highlightMatches as a function of its arguments and of *)
(* what the matcher reports                                                *)
(***************************************************************************)
MaxSpans == 2

\* a label longer than the 32 characters the matcher searches at a time, and
\* a query that is its first 33 characters
LongText == "aaaaaaaaaaaaaaaaaaaaaaaaaaaaaaaaaa"
LongQuery == SubSeq(LongText, 1, 33)

HighlightTexts == {"ab", "abc", LongText}
HighlightQueries == {"", " ", "b", "ab", LongQuery}

\* String.prototype.slice(from, to) for indices that are not negative
Slice(text, from, to) ==
    SubSeq(text, from + 1, IF to > Len(text) THEN Len(text) ELSE to)

\* the [start, end] index pairs followed for a text: those that start or end
\* within two characters of its ends
SpansOf(text) ==
    LET ends == {0, 1, Len(text) - 2, Len(text) - 1} \cap (0..(Len(text) - 1))
    IN  { p \in ends \X ends : p[1] <= p[2] }

\* the indices of one search of the matcher: runs of matched characters, in
\* the order of the text and apart from each other
RunLists(text) ==
    { l \in UNION { [1..n -> SpansOf(text)] : n \in 1..MaxSpans } :
        \A i \in 1..(Len(l) - 1) : l[i][2] < l[i + 1][1] }

\* what fuse.search(query) reports for [{ text }]: no result, or the match
\* indices of the text. Fuse searches a pattern of more than 32 characters
\* in pieces of 32 and reports the indices of the pieces one after another.
MatcherReports(text, query) ==
    { [found |-> FALSE, indices |-> <<>>] }
    \cup (IF Len(query) > 32
          THEN { [found |-> TRUE, indices |-> l1 \o l2] :
                   l1 \in RunLists(text), l2 \in RunLists(text) }
          ELSE { [found |-> TRUE, indices |-> l] : l \in RunLists(text) })

\* [...matches.indices].sort((a, b) => a[0] - b[0]): a stable sort on start
RECURSIVE InsertSpan(_, _)
InsertSpan(sorted, p) ==
    IF sorted = <<>> THEN <<p>>
    ELSE IF p[1] < Head(sorted)[1] THEN <<p>> \o sorted
    ELSE <<Head(sorted)>> \o InsertSpan(Tail(sorted), p)

RECURSIVE SortSpans(_)
SortSpans(spans) ==
    IF spans = <<>> THEN <<>>
    ELSE InsertSpan(SortSpans(SubSeq(spans, 1, Len(spans) - 1)), spans[Len(spans)])

\* the forEach over the sorted indices and the rest of the text after it
RECURSIVE HighlightFrom(_, _, _)
HighlightFrom(text, spans, lastIndex) ==
    IF spans = <<>>
    THEN (IF lastIndex < Len(text)
          THEN << [text |-> Slice(text, lastIndex, Len(text)), isMatch |-> FALSE] >>
          ELSE <<>>)
    ELSE LET start == Head(spans)[1]
             end == Head(spans)[2]
         IN  (IF start > lastIndex
              THEN << [text |-> Slice(text, lastIndex, start), isMatch |-> FALSE] >>
              ELSE <<>>)
             \o << [text |-> Slice(text, start, end + 1), isMatch |-> TRUE] >>
             \o HighlightFrom(text, Tail(spans), end + 1)

\* highlightMatches(text, query), given the report of the matcher
HighlightMatches(text, query, report) ==
    IF Blank(query) \/ ~report.found
    THEN << [text |-> text, isMatch |-> FALSE] >>
    ELSE HighlightFrom(text, SortSpans(report.indices), 0)

\* a call of highlightMatches is about to be made
InitHighlight ==
    /\ \E t \in HighlightTexts, q \in HighlightQueries :
       \E r \in MatcherReports(t, q) :
          /\ Len(q) <= Len(t)
          /\ lastOp = [op |-> "highlightArgs", text |-> t, query |-> q, report |-> r]
    /\ store = [sk \in {OtherKey} |-> [kind |-> "raw", text |-> "value"]]
    /\ now = 0
    /\ InitPage
    /\ budget = [user |-> <<>>, fail |-> 0]

ApplyHighlight ==
    /\ lastOp.op = "highlightArgs"
    /\ lastOp' = [op |-> "highlighted", text |-> lastOp.text, query |-> lastOp.query,
                  report |-> lastOp.report,
                  segments |-> HighlightMatches(lastOp.text, lastOp.query, lastOp.report)]
    /\ UNCHANGED <<store, now, value, field, net, obs, budget>>

SpecHighlight == InitHighlight /\ [][ApplyHighlight]_vars

\* the texts of a list of segments, joined in order
RECURSIVE JoinSegments(_)
JoinSegments(segs) ==
    IF segs = <<>> THEN "" ELSE Head(segs).text \o JoinSegments(Tail(segs))

\* C19: for every text, query and report of the matcher, the segments of
\* highlightMatches joined in order are the text, and an empty query or a
\* report without a match gives the text as one segment that is not matched.
C19_SegmentsRebuildText ==
    lastOp.op = "highlighted" =>
        /\ JoinSegments(lastOp.segments) = lastOp.text
        /\ (lastOp.query = "" \/ ~lastOp.report.found) =>
              lastOp.segments = << [text |-> lastOp.text, isMatch |-> FALSE] >>

\* isDisabled of the last render of a field (the page passes no disabled prop)
IsDisabled(f) == ~field[f].seen.satisfied

\* some parent filter of the field has no value
FilterAbsent(f) ==
    \E i \in 1..Len(ParentFilters(f, value)) : ParentFilters(f, value)[i][2] = ""

\* the field has been rendered with the filter values the page holds
RenderedCurrent(f) ==
    /\ field[f].seen.mounted
    /\ field[f].seen.filters = JsonObject(ParentFilters(f, value))

\* C20: a field that is rendered while at least one of its parent filter
\* values is absent is disabled, its option list is closed, and no input,
\* selection or creation is handled by it.
C20_AbsentParentDisables ==
    [][\A f \in Fields :
          (RenderedCurrent(f) /\ FilterAbsent(f)) =>
              /\ IsDisabled(f)
              /\ ~field[f].st.isOpen
              /\ ~(lastOp'.op \in {"type", "select", "create", "open"} /\ lastOp'.f = f
                   /\ lastOp' # lastOp)]_vars

\* C20 witness: the brand is chosen, no model is, and the model number field
\* is rendered disabled
C20_Witness ==
    /\ value.brand # "" /\ value.model = ""
    /\ RenderedCurrent("modelNumber")
    /\ ~field["modelNumber"].dirty
    /\ IsDisabled("modelNumber")

\* C21: after handleSelectOption(option) the selected value of the field is
\* option.value, its input text is option.label, its list is closed and
\* onChange was called once, with option.value; the render that follows
\* keeps all of it.
C21_SelectSetsValue ==
    [][/\ (lastOp'.op = "select" /\ lastOp' # lastOp) =>
            /\ field'[lastOp'.f].st.selectedValue = lastOp'.value
            /\ field'[lastOp'.f].st.inputValue = lastOp'.label
            /\ ~field'[lastOp'.f].st.isOpen
            /\ lastOp'.onChange = <<lastOp'.value>>
            /\ value'[lastOp'.f] = lastOp'.value
       /\ (lastOp.op = "select" /\ lastOp'.op = "render") =>
            /\ field'[lastOp.f].st.selectedValue = lastOp.value
            /\ field'[lastOp.f].st.inputValue = lastOp.label
            /\ ~field'[lastOp.f].st.isOpen
            /\ value'[lastOp.f] = lastOp.value]_vars

\* C21 witness: an option whose label differs from its value was selected
C21_Witness ==
    /\ lastOp.op = "select"
    /\ lastOp.label # lastOp.value
    /\ field[lastOp.f].st.selectedValue = lastOp.value
    /\ field[lastOp.f].st.inputValue = lastOp.label

(***************************************************************************)
(* One independent field (the colour field of the page): its handlers      *)
(***************************************************************************)
\* the first rows of the colour table, as options
ColorOptions == << Opt("1", "Black"), Opt("2", "White"), Opt("3", "Red") >>

\* the texts typed into the field
ColorTexts == {"", "W", "Red", "x"}

RequiredMsg == "This field is required"
InvalidMsg == "Invalid value"
RuleMsg == "Not allowed"

\* the validationRules prop: absent, a rule with a boolean result and a rule
\* with a message; both rules reject the value "3"
RuleKinds == {"none", "boolean", "message"}

ValidationRules(kind, v) ==
    CASE kind = "boolean" -> IF v = "3" THEN "false" ELSE "true"
      [] kind = "message" -> IF v = "3" THEN RuleMsg ELSE "true"

\* the props of the field that the page or another owner can pass
FieldProps == [required : BOOLEAN, allowCustom : BOOLEAN, rules : RuleKinds]

\* the render after a handler: the filteredOptions memo of a prefetch field
\* and its effect
FieldRender(c) ==
    [c EXCEPT !.st = Dispatch(c.st,
        <<Act("SET_FILTERED_OPTIONS", SmartSearch(c.st.inputValue, c.st.options))>>)]

\* the field after mount, before its prefetch has answered
InitField ==
    /\ \E props \in FieldProps :
         field = [st |-> InitialState, highlightedIndex |-> 0, props |-> props,
                  loaded |-> FALSE]
    /\ value = ""
    /\ lastOp = [op |-> "init"]
    /\ store = [sk \in {OtherKey} |-> [kind |-> "raw", text |-> "value"]]
    /\ now = 0
    /\ net = {}
    /\ obs = [f \in Fields |-> [attempts |-> 0, burst |-> 0,
                               needsClear |-> FALSE, cleared |-> FALSE]]
    /\ budget = [user |-> <<>>, fail |-> 0]

fieldFrame == <<store, now, net, obs, budget>>

\* the prefetch answers: the options effect
Loaded ==
    /\ ~field.loaded
    /\ field' = FieldRender([field EXCEPT
                    !.st = Dispatch(@, <<Act("SET_OPTIONS", ColorOptions),
                                         Act("SET_LOADING", FALSE)>>),
                    !.loaded = TRUE])
    /\ lastOp' = [op |-> "loaded"]
    /\ UNCHANGED <<value, fieldFrame>>

\* an input change that keeps a stale validation message
InputChangeActsKeepError(st, text) ==
    <<Act("SET_INPUT_VALUE", text), Act("SET_OPEN", TRUE)>>

\* the dispatches of handleInputChange
InputChangeActs(st, text) ==
    <<Act("SET_INPUT_VALUE", text), Act("SET_OPEN", TRUE)>>
    \o (IF st.isTouched /\ st.validationError # NoMsg
        THEN <<Act("SET_VALIDATION_ERROR", NoMsg)>> ELSE <<>>)

\* handleInputChange
InputChange(text) ==
    /\ text # field.st.inputValue
    /\ field' = FieldRender([field EXCEPT
                    !.st = Dispatch(@, InputChangeActs(field.st, text)),
                    !.highlightedIndex = 0])
    /\ lastOp' = [op |-> "input", text |-> text, before |-> field.st,
                  onChange |-> <<>>]
    /\ UNCHANGED <<value, fieldFrame>>

\* the dispatches of handleBlur
BlurActs(st, props) ==
    <<Act("SET_TOUCHED", TRUE)>>
    \o (IF props.rules = "none" THEN <<>>
        ELSE LET result == ValidationRules(props.rules, st.selectedValue)
             IN  IF result = "true" THEN <<Act("SET_VALIDATION_ERROR", NoMsg)>>
                 ELSE IF result = "false" THEN <<Act("SET_VALIDATION_ERROR", InvalidMsg)>>
                 ELSE <<Act("SET_VALIDATION_ERROR", result)>>)
    \o (IF props.required /\ st.selectedValue = ""
        THEN <<Act("SET_VALIDATION_ERROR", RequiredMsg)>> ELSE <<>>)

\* handleBlur
Blur ==
    /\ field' = FieldRender([field EXCEPT !.st = Dispatch(@, BlurActs(field.st, field.props))])
    /\ lastOp' = [op |-> "blur", before |-> field.st]
    /\ UNCHANGED <<value, fieldFrame>>

\* handleSelectOption(option) of the field, with the option highlighted at
\* index hl
FieldSelect(option, via, hl) ==
    /\ field' = FieldRender([field EXCEPT !.st = Dispatch(@, SelectActs(option)),
                                          !.highlightedIndex = hl])
    /\ value' = option.value
    /\ lastOp' = [op |-> "select", via |-> via, value |-> option.value,
                  label |-> option.label, onChange |-> <<option.value>>,
                  before |-> field.st]
    /\ UNCHANGED fieldFrame

\* the guard of handleCreateCustom
CanCreate(st, props) == props.allowCustom /\ st.inputValue # ""

\* handleCreateCustom of the field
FieldCreate(via) ==
    /\ IF CanCreate(field.st, field.props)
       THEN /\ field' = FieldRender([field EXCEPT
                           !.st = Dispatch(@, <<Act("SET_SELECTED_VALUE", field.st.inputValue),
                                                Act("SET_OPEN", FALSE)>>)])
            /\ value' = field.st.inputValue
       ELSE UNCHANGED <<field, value>>
    /\ lastOp' = [op |-> "create", via |-> via, before |-> field.st,
                  allowCustom |-> field.props.allowCustom,
                  created |-> CanCreate(field.st, field.props),
                  onChange |-> IF CanCreate(field.st, field.props)
                               THEN <<field.st.inputValue>> ELSE <<>>]
    /\ UNCHANGED fieldFrame

\* the pointer enters an option of the open list (onMouseEnter) and clicks it
ClickOption(i) ==
    /\ field.st.isOpen
    /\ i \in 1..Len(field.st.filteredOptions)
    /\ FieldSelect(field.st.filteredOptions[i], "click", i - 1)

\* a click on the create button, rendered for an empty list (lines 334-346)
ClickCreate ==
    /\ field.st.isOpen
    /\ field.st.filteredOptions = <<>>
    /\ field.props.allowCustom
    /\ field.st.inputValue # ""
    /\ FieldCreate("button")

\* setHighlightedIndex of ArrowDown
ArrowDown(prev, count) == IF prev < count - 1 THEN prev + 1 ELSE prev

\* setHighlightedIndex of ArrowUp
ArrowUp(prev) == IF prev > 0 THEN prev - 1 ELSE 0

Keys == {"ArrowDown", "ArrowUp", "Enter", "Escape", "Tab"}

\* a key that only changes the state of the field
KeyState(key) ==
    /\ field' = FieldRender(
          IF ~field.st.isOpen
          THEN (IF key \in {"ArrowDown", "Enter"}
                THEN [field EXCEPT !.st = Dispatch(@, <<Act("SET_OPEN", TRUE)>>)]
                ELSE field)
          ELSE CASE key = "ArrowDown" ->
                      [field EXCEPT !.highlightedIndex =
                          ArrowDown(@, Len(field.st.filteredOptions))]
                 [] key = "ArrowUp" ->
                      [field EXCEPT !.highlightedIndex = ArrowUp(@)]
                 [] key \in {"Escape", "Tab"} ->
                      [field EXCEPT !.st = Dispatch(@, <<Act("SET_OPEN", FALSE)>>)]
                 [] OTHER -> field)
    /\ lastOp' = [op |-> "key", key |-> key, wasOpen |-> field.st.isOpen,
                  index |-> field.highlightedIndex,
                  count |-> Len(field.st.filteredOptions)]
    /\ UNCHANGED <<value, fieldFrame>>

\* handleKeyDown
KeyDown(key) ==
    IF key = "Enter" /\ field.st.isOpen
    THEN IF field.highlightedIndex + 1 \in 1..Len(field.st.filteredOptions)
         THEN FieldSelect(field.st.filteredOptions[field.highlightedIndex + 1], "enter",
                          field.highlightedIndex)
         ELSE IF CanCreate(field.st, field.props)
              THEN FieldCreate("enter")
              ELSE KeyState(key)
    ELSE KeyState(key)

\* onOpenChange of the popover of the field
FieldOpenChange(open) ==
    /\ open # field.st.isOpen
    /\ field' = FieldRender([field EXCEPT !.st = Dispatch(@, <<Act("SET_OPEN", open)>>)])
    /\ lastOp' = [op |-> "open", open |-> open]
    /\ UNCHANGED <<value, fieldFrame>>

NextField ==
    \/ Loaded
    \/ \E text \in ColorTexts : InputChange(text)
    \/ Blur
    \/ \E i \in 1..Len(ColorOptions) : ClickOption(i)
    \/ ClickCreate
    \/ \E key \in Keys : KeyDown(key)
    \/ \E open \in BOOLEAN : FieldOpenChange(open)

SpecField == InitField /\ [][NextField]_vars

\* the supplied validation function rejects the value
Rejects(kind, v) == kind # "none" /\ ValidationRules(kind, v) # "true"

\* C22: after handleBlur the field is touched, and its validation message is
\* set when the field is required and has no selected value or the supplied
\* validation function rejects the selected value, and is null in every
\* other case.
C22_BlurValidates ==
    lastOp.op = "blur" =>
        /\ field.st.isTouched
        /\ IF \/ field.props.required /\ field.st.selectedValue = ""
              \/ Rejects(field.props.rules, field.st.selectedValue)
           THEN field.st.validationError # NoMsg
           ELSE field.st.validationError = NoMsg

\* an option of the list has the text as its label or as its value
MatchesExactly(options, text) ==
    \E i \in 1..Len(options) : options[i].label = text \/ options[i].value = text

\* C28: a custom value is created, by the Enter key or by the create button,
\* only when custom values are allowed and no option of the list the field
\* shows matches the input text exactly.
C28_CreateOnlyWithoutMatch ==
    (lastOp.op = "create" /\ lastOp.created) =>
        /\ lastOp.allowCustom
        /\ ~MatchesExactly(lastOp.before.filteredOptions, lastOp.before.inputValue)

\* C29: with the list open and at least one option in it, ArrowDown and
\* ArrowUp leave the highlighted index inside 0 .. optionCount - 1, one step
\* from where it was, or where it was at the last and at the first option.
C29_ArrowsStayInRange ==
    (lastOp.op = "key" /\ lastOp.wasOpen /\ lastOp.count > 0
        /\ lastOp.key \in {"ArrowDown", "ArrowUp"}) =>
        /\ field.highlightedIndex \in 0..(lastOp.count - 1)
        /\ lastOp.key = "ArrowDown" =>
              field.highlightedIndex =
                  IF lastOp.index = lastOp.count - 1 THEN lastOp.index
                  ELSE lastOp.index + 1
        /\ lastOp.key = "ArrowUp" =>
              field.highlightedIndex =
                  IF lastOp.index = 0 THEN 0 ELSE lastOp.index - 1

\* C30: after handleInputChange(text) the input text is text, the list is
\* open, the highlighted index is 0 and a field that was touched has no
\* validation message; the selected value and the value of the owner are
\* what they were, and onChange was not called.
C30_InputChangeFrame ==
    [][(lastOp'.op = "input" /\ lastOp' # lastOp) =>
          /\ field'.st.inputValue = lastOp'.text
          /\ field'.st.isOpen
          /\ field'.highlightedIndex = 0
          /\ field.st.isTouched => field'.st.validationError = NoMsg
          /\ field'.st.selectedValue = field.st.selectedValue
          /\ value' = value
          /\ lastOp'.onChange = <<>>]_vars

\* C30 witness: text was typed into a touched field that held a selected
\* value and a validation message
C30_Witness ==
    /\ lastOp.op = "input"
    /\ lastOp.before.isTouched
    /\ lastOp.before.validationError # NoMsg
    /\ lastOp.before.selectedValue # ""
    /\ field.st.validationError = NoMsg
    /\ field.st.selectedValue = lastOp.before.selectedValue

\* the options the backend has for a field under the filter values the
\* page holds
CurrentOptions(f) ==
    { ServerData(f, ParentFilters(f, value), "")[i] :
        i \in 1..Len(ServerData(f, ParentFilters(f, value), "")) }

\* C23: once a child field has been rendered with changed parent filter
\* values, its selected value and input text have been emptied at the reset
\* and its option set holds no option obtained under the previous filter
\* values: every option it holds is one the backend has under the current
\* values.
C23_NoStaleOptions ==
    \A f \in Fields :
        (Len(ParentFilters(f, value)) > 0 /\ RenderedCurrent(f)) =>
            \A i \in 1..Len(field[f].st.options) :
                field[f].st.options[i] \in CurrentOptions(f)

\* a fetch of the field under the filter values the page holds is waiting
\* for its timer, is on the network, or has left its entry in the cache
FetchUnderCurrent(f) ==
    \/ \E t \in field[f].timers : t.pf = ParentFilters(f, value)
    \/ \E r \in InFlight(f) : r.pf = ParentFilters(f, value)
    \/ \E q \in InputTexts(f) \cup {""} :
          GetItem(store, StorageKeyOf(SearchKey(f, ParentFilters(f, value), q))) # NoItem

\* C24: when a child field has been reset by a change of its parent filter
\* values and all of them are present, a fetch of the child under the new
\* values has been triggered by the time its renders have settled, without
\* any input typed into the child.
C24_ResetTriggersFetch ==
    \A f \in Fields :
        (/\ obs[f].cleared /\ Emptied(f)
         /\ Len(ParentFilters(f, value)) > 0
         /\ RenderedCurrent(f) /\ field[f].seen.satisfied
         /\ Stable /\ ~field[f].dirty) =>
            FetchUnderCurrent(f)

\* a put whose first write failed with a quota error
QuotaPut == lastOp.op = "put" /\ lastOp.outcome # "ok"

\* C25 as stated: the eviction pass that follows the quota error evicts half
\* of maxEntries entries.
C25_EvictsHalf ==
    QuotaPut => Cardinality(lastOp.retry) = lastOp.maxEntries \div 2

\* C25: when the write of a put fails with a quota error, one eviction pass
\* removes the oldest entries until fewer than half of maxEntries are left
\* (none if fewer are stored already) and the write is retried once; a retry
\* that succeeds stores the entry, a retry that fails leaves the key without
\* the new entry, and every item of another key that was not evicted is
\* unchanged.
C25_QuotaRetry ==
    [][(QuotaPut' /\ now' = now) =>
        LET sk == StorageKeyOf(lastOp'.key)
            half == lastOp'.maxEntries \div 2
            others == Retained(store') \ {sk}
        IN  /\ lastOp'.writes = 2
            /\ Cardinality(others) < half \/ half = 0
            /\ Cardinality(lastOp'.retry) \in
                  {0, EntryCount(store) - Cardinality(lastOp'.toRemove \ lastOp'.retry) - half + 1}
            /\ \A e \in lastOp'.toRemove, k \in others :
                  e.timestamp <= store[k].timestamp
            /\ \A k \in DOMAIN store' \ {sk} :
                  k \in DOMAIN store /\ store'[k] = store[k]
            /\ lastOp'.outcome = "retryOk" =>
                  GetItem(store', sk) =
                      Serialize([data |-> lastOp'.data, etag |-> lastOp'.etag,
                                 timestamp |-> now, key |-> lastOp'.key])
            /\ lastOp'.outcome = "retryFail" =>
                  GetItem(store', sk) \in {NoItem, GetItem(store, sk)}]_vars

\* C25 witness: the retry failed as well, the pass after the quota error
\* evicted entries, and an entry of another key survived it
C25_Witness ==
    /\ QuotaPut
    /\ lastOp.outcome = "retryFail"
    /\ lastOp.retry # {}
    /\ \E sk \in Retained(store) :
          /\ sk # StorageKeyOf(lastOp.key)
          /\ \E e \in lastOp.retry : e.timestamp < store[sk].timestamp

C27_StorageFailureSilent ==
    [][/\ (/\ lastOp'.op = "timer"
           /\ field'[lastOp'.f].timers # field[lastOp'.f].timers
           /\ GetItem(store, StorageKeyOf(lastOp'.key)).kind = "raw") =>
            /\ \E r \in net' : r.f = lastOp'.f /\ r.key = lastOp'.key /\ r.latest
            /\ field'[lastOp'.f].hook.error = field[lastOp'.f].hook.error
            /\ field'[lastOp'.f].hook.data = field[lastOp'.f].hook.data
       /\ (/\ lastOp'.op = "respond" /\ lastOp'.ok /\ net' # net
           /\ lastOp'.write # "ok" \/ CollectThrows(store)) =>
            /\ field'[lastOp'.f].hook =
                  [data |-> lastOp'.data, isLoading |-> FALSE, error |-> NoMsg]
            /\ ~lastOp'.onError]_vars

\* C27 witness: the attempt for "Zo" read the damaged item and went to the
\* network; the write of its response was dropped after the failed retry, the
\* damaged item is still stored, and the field holds the fetched models
C27_Witness ==
    /\ lastOp.op = "respond"
    /\ lastOp.ok
    /\ lastOp.write = "retryFail"
    /\ StorageKeyOf(lastOp.key) = ZoKey
    /\ GetItem(store, ZoKey) = CorruptItem
    /\ lastOp.data # <<>>
    /\ field[lastOp.f].hook.data = lastOp.data
    /\ field[lastOp.f].hook.error = NoMsg

(***************************************************************************)
(* multiTokenSearch as a function of its arguments                         *)
(***************************************************************************)
TokenQueries == {"", " ", "a1", "a B", "b  a"}

\* a call of multiTokenSearch is about to be made
InitTokens ==
    /\ \E q \in TokenQueries, l \in OptionLists :
          lastOp = [op |-> "tokenArgs", query |-> q, options |-> l]
    /\ store = [sk \in {OtherKey} |-> [kind |-> "raw", text |-> "value"]]
    /\ now = 0
    /\ InitPage
    /\ budget = [user |-> <<>>, fail |-> 0]

ApplyMultiTokenSearch ==
    /\ lastOp.op = "tokenArgs"
    /\ lastOp' = [op |-> "filtered", query |-> lastOp.query, options |-> lastOp.options,
                  result |-> MultiTokenSearch(lastOp.query, lastOp.options)]
    /\ UNCHANGED <<store, now, value, field, net, obs, budget>>

SpecTokens == InitTokens /\ [][ApplyMultiTokenSearch]_vars

\* the whitespace-separated tokens of a text: its maximal runs without a space
TokenSet(q) ==
    { SubSeq(q, i, j) : <<i, j>> \in
        { p \in (1..Len(q)) \X (1..Len(q)) :
            /\ p[1] <= p[2]
            /\ \A k \in p[1]..p[2] : SubSeq(q, k, k) # " "
            /\ p[1] = 1 \/ SubSeq(q, p[1] - 1, p[1] - 1) = " "
            /\ p[2] = Len(q) \/ SubSeq(q, p[2] + 1, p[2] + 1) = " " } }

\* every token of the query occurs in the text, without regard to case
HasEveryToken(text, query) ==
    \A t \in TokenSet(ToLowerCase(query)) : Includes(ToLowerCase(text), t)

\* the options of the list, in their order, whose label directly followed by
\* the value holds every token
KeptJoined(query, options) ==
    LET Keep(o) == HasEveryToken(o.label \o o.value, query)
    IN  SelectSeq(options, Keep)

\* the options of the list, in their order, whose label, a space and value
\* hold every token
KeptSpaced(query, options) ==
    LET Keep(o) == HasEveryToken(o.label \o " " \o o.value, query)
    IN  SelectSeq(options, Keep)

\* C31 as stated: multiTokenSearch returns, in their order, exactly the
\* options whose label concatenated with the value contains every token.
C31_FiltersJoined ==
    lastOp.op = "filtered" =>
        lastOp.result = KeptJoined(lastOp.query, lastOp.options)

\* C31: multiTokenSearch returns, in their original order, exactly the
\* options whose text "label value" (label, one space, value) contains every
\* whitespace-separated token of the query without regard to case; for an
\* empty or whitespace-only query it returns the list unchanged.
C31_FiltersSpaced ==
    lastOp.op = "filtered" =>
        /\ lastOp.result = KeptSpaced(lastOp.query, lastOp.options)
        /\ TokenSet(lastOp.query) = {} => lastOp.result = lastOp.options

\* C31 witness: a query of two tokens with capitals kept some options of the
\* list and dropped others
C31_Witness ==
    /\ lastOp.op = "filtered"
    /\ Cardinality(TokenSet(lastOp.query)) = 2
    /\ lastOp.query # ToLowerCase(lastOp.query)
    /\ Len(lastOp.result) >= 2
    /\ Len(lastOp.result) < Len(lastOp.options)

\* C32: once the renders of a search-mode field have settled, isLoading of
\* its search hook is false whenever the field has no armed timer and no
\* request in flight.
C32_LoadingOnlyWhileFetching ==
    \A f \in Fields :
        (/\ ~Prefetch[f]
         /\ Stable /\ ~field[f].dirty
         /\ field[f].timers = {}
         /\ InFlight(f) = {}) =>
            ~field[f].hook.isLoading

\* C33: once a field has been rendered with the filter values of the page
\* and one of them is absent, no debounce timer of the field is armed and
\* every request of the field that is still on the network has been aborted.
C33_NoFetchWhileAbsent ==
    \A f \in Fields :
        (RenderedCurrent(f) /\ FilterAbsent(f) /\ ~field[f].dirty) =>
            /\ field[f].timers = {}
            /\ \A r \in InFlight(f) : r.aborted

\* C33 witness: the brand change emptied the model while the model number
\* field held a typed text; the field is rendered without its model filter,
\* its controller is aborted and its timer is gone
C33_Witness ==
    /\ RenderedCurrent("modelNumber") /\ FilterAbsent("modelNumber")
    /\ ~field["modelNumber"].dirty
    /\ obs["modelNumber"].cleared
    /\ value.brand = "Ni"
    /\ field["modelNumber"].ctl = "aborted"
    /\ field["modelNumber"].timers = {}

\* the cache key that encodes the endpoint, filters and query of a request
EncodedKey(r) ==
    IF r.kind = "search"
    THEN Endpoint[r.f] \o ":" \o JsonObject(r.pf \o << <<"q", r.q>> >>)
    ELSE Endpoint[r.f] \o ":" \o JsonObject(r.pf)

\* the cache entries that a step wrote or replaced
Written(s, t) ==
    { sk \in Retained(t) : t[sk].kind = "json" /\ (sk \notin DOMAIN s \/ t[sk] # s[sk]) }

\* C34: a cache entry is written only by the handling of a successful
\* response with data, under the key that encodes the endpoint, parent
\* filters and query of its request and with the data that request returned;
\* failed, cancelled and cache-served attempts write no entry.
C34_WrittenOnlyOnSuccess ==
    [][\A sk \in Written(store, store') :
          /\ lastOp'.op = "respond" /\ lastOp'.ok
          /\ \E r \in net \ net' :
                /\ ~r.aborted
                /\ sk = StorageKeyOf(EncodedKey(r))
                /\ store'[sk].key = EncodedKey(r)
                /\ store'[sk].data = ServerData(r.f, r.pf, r.q)]_vars

\* C34 witness: after a failed search request of the field the response of a
\* later one wrote its models under the key of that search
C34_Witness ==
    /\ lastOp.op = "respond" /\ lastOp.ok /\ lastOp.kind = "search"
    /\ budget.fail < MaxFailures
    /\ GetItem(store, StorageKeyOf(lastOp.key)).kind = "json"
    /\ GetItem(store, StorageKeyOf(lastOp.key)).data = lastOp.data
    /\ lastOp.data # <<>>

\* C35: a render empties the value that the owner holds for a field only
\* when the field was mounted before and its parent filter values differ
\* from those of its last render; the mount of a field leaves a value that
\* the owner supplies in place.
C35_ClearedOnlyOnParentChange ==
    [][\A f \in Fields :
          (lastOp'.op = "render" /\ value[f] # "" /\ value'[f] = "") =>
              /\ field[f].seen.mounted
              /\ field[f].seen.filters # JsonObject(ParentFilters(f, value))]_vars

\* C36: once the renders have settled after an attempt of a field that
\* completed successfully (the hook holds no error and is not loading), the
\* error state of the field is null, so the load-failure message is not shown.
C36_ErrorClearedOnSuccess ==
    \A f \in Fields :
        (/\ Stable /\ ~field[f].dirty
         /\ field[f].hook.error = NoMsg
         /\ ~field[f].hook.isLoading) =>
            field[f].st.error = NoMsg

\* C37: whenever the list of the field is open and the rendered option list
\* is not empty, the highlighted index refers to one of its options.
C37_HighlightInRange ==
    (field.st.isOpen /\ Len(field.st.filteredOptions) > 0) =>
        (0 <= field.highlightedIndex
         /\ field.highlightedIndex < Len(field.st.filteredOptions))

\* no field has an armed timer or a request on the network
Quiet == net = {} /\ \A f \in Fields : field[f].timers = {}

\* C38: once the fields have settled (the renders caused by the last change
\* of input, filters or data are done, no timer is armed and no request is
\* in flight), no field is scheduled for a render whose effects start a
\* further fetch attempt, be it a cache lookup or a network call.
C38_SettledStartsNoAttempt ==
    (Stable /\ Quiet) =>
        \A f \in Fields :
            field[f].dirty => RenderOut(f, store).pre = "none"

C40_UnmountCancels ==
    /\ Unmounted =>
          /\ \A f \in Fields : field[f].timers = {}
          /\ \A r \in net : r.aborted
    /\ lastOp.op = "settled" => lastOp.aborted

====
